---- MODULE Spec2Model ----
(***************************************************************************)
(* Model of the SAP B1 query execution engine: the in-memory session       *)
(* manager (lib/session-manager), loginToSAPB1, the paginated fetcher       *)
(* executeSAPB1Query / makeSAPB1Request and the POST handler of the         *)
(* execute-query route.                                                     *)
(*                                                                          *)
(* JavaScript runs each handler to its next await without interleaving, so  *)
(* the environment (the client's abort, the clock, the upstream's answers,  *)
(* the cleanup timer) acts only while the handler is suspended at an await. *)
(* pc names the await the handler is suspended at, or the synchronous       *)
(* segment it is about to run.                                              *)
(***************************************************************************)
EXTENDS Integers, Sequences, FiniteSets, TLC

\* ------------------------------------------------------------------------
\* Bounds of the model (not program constants)
\* ------------------------------------------------------------------------
MaxTicks == 3
MaxRequests == 2
MaxPages == 6
MaxPagesPost == 3
MaxCalls == 2
MaxTicksLogin == 2

\* ------------------------------------------------------------------------
\* Program constants
\* ------------------------------------------------------------------------
\* const SESSION_EXPIRATION_TIME = 30 * 60 * 1000
SESSION_EXPIRATION_TIME == 30 * 60 * 1000
\* const pageSize = 1000
pageSize == 1000
\* if (skip >= 100000)
SafetyLimit == 100000
\* recordsReceived > 0 ? recordsReceived : 20
EmptyPageIncrement == 20
\* if (consecutiveEmptyPages >= 3)
MaxConsecutiveEmpty == 3

\* Values that are a number or null are integers: a number is >= 0, Null
\* stands for null or undefined and NaN for the result of parsing text that
\* has no digits.  A session id is a positive number, NoSession is null.
Null == 0 - 1
NaN == 0 - 2
NoSession == 0

Min(a, b) == IF a <= b THEN a ELSE b

\* ------------------------------------------------------------------------
\* Strings as sequences of tokens.  A server URL is a host token followed
\* by path tokens; "/" alone is a trailing slash.
\* ------------------------------------------------------------------------
ApiPath == <<"/b1s/v1">>
LoginPath == <<"/b1s/v1", "/Login">>

\* s.replace(/\/$/, '')
StripSlash(s) ==
  IF Len(s) > 0 /\ s[Len(s)] = "/" THEN SubSeq(s, 1, Len(s) - 1) ELSE s

Occurs(s, pat, i) ==
  /\ i + Len(pat) - 1 <= Len(s)
  /\ \A j \in 1..Len(pat) : s[i + j - 1] = pat[j]

\* s.includes(pat)
Includes(s, pat) == \E i \in 1..Len(s) : Occurs(s, pat, i)

\* s.replace(pat, ''): the first occurrence only
ReplaceFirst(s, pat) ==
  IF ~Includes(s, pat) THEN s
  ELSE LET i == CHOOSE k \in 1..Len(s) :
                  Occurs(s, pat, k) /\ \A m \in 1..(k - 1) : ~Occurs(s, pat, m)
       IN SubSeq(s, 1, i - 1) \o SubSeq(s, i + Len(pat), Len(s))

\* Mutant: the login path suffix is not stripped
NormalizeServerKeepsLogin(server) ==
  LET a == StripSlash(server)
  IN IF Includes(a, LoginPath) THEN a
     ELSE IF Includes(a, ApiPath) THEN StripSlash(ReplaceFirst(a, ApiPath)) ELSE a

NormalizeServer(server) ==
  LET a == StripSlash(server)
      b == IF Includes(a, LoginPath) THEN StripSlash(ReplaceFirst(a, LoginPath)) ELSE a
      c == IF Includes(b, ApiPath) THEN StripSlash(ReplaceFirst(b, ApiPath)) ELSE b
  IN c

\* The JavaScript value undefined of a field the settings object lacks; a
\* template string prints it as 'undefined'
Undefined == <<"undefined">>

\* settings.sapServer.trim() of a missing sapServer throws a TypeError
TrimThrows(settings) == settings.sapServer = Undefined

\* Mutant: the password is part of the key
getConnectionKeyWithPassword(settings) ==
  NormalizeServer(settings.sapServer) \o <<"|">> \o settings.companyDB
      \o <<"|">> \o settings.userName \o <<"|", settings.password>>

\* `${serverUrl}|${settings.companyDB}|${settings.userName}`
getConnectionKey(settings) ==
  NormalizeServer(settings.sapServer) \o <<"|">> \o settings.companyDB
      \o <<"|">> \o settings.userName

\* ------------------------------------------------------------------------
\* Session manager: sessionCache is the Map, a function whose domain is the
\* set of keys present.
\* ------------------------------------------------------------------------
EmptyMap == [x \in {} |-> x]
MapDelete(m, k) == [x \in (DOMAIN m) \ {k} |-> m[x]]
MapSet(m, k, v) == [x \in (DOMAIN m) \cup {k} |-> IF x = k THEN v ELSE m[x]]

\* Mutant: expired only after the boundary
IsExpiredLate(entry, t) == t > entry.expiresAt

\* if (now >= cached.expiresAt)
IsExpired(entry, t) == t >= entry.expiresAt

\* The value getCachedSession returns
getCachedSession(cache, settings, t) ==
  LET key == getConnectionKey(settings)
  IN IF key \notin DOMAIN cache THEN NoSession
     ELSE IF IsExpired(cache[key], t) THEN NoSession
     ELSE cache[key].sessionId

\* Mutant: a hit renews the entry
getCachedSessionCacheSliding(cache, settings, t) ==
  LET key == getConnectionKey(settings)
  IN IF key \notin DOMAIN cache THEN cache
     ELSE IF IsExpired(cache[key], t) THEN MapDelete(cache, key)
     ELSE MapSet(cache, key, [cache[key] EXCEPT !.expiresAt = t + SESSION_EXPIRATION_TIME])

\* The Map after getCachedSession ran
getCachedSessionCache(cache, settings, t) ==
  LET key == getConnectionKey(settings)
  IN IF key \in DOMAIN cache /\ IsExpired(cache[key], t)
     THEN MapDelete(cache, key) ELSE cache

\* Mutant: the lifetime is counted from a later instant than createdAt
NewEntryLate(sid, t) ==
  [sessionId |-> sid, createdAt |-> t, expiresAt |-> t + 1 + SESSION_EXPIRATION_TIME]

NewEntry(sid, t) ==
  [sessionId |-> sid, createdAt |-> t, expiresAt |-> t + SESSION_EXPIRATION_TIME]

\* Mutant: an entry that is present is not overwritten
cacheSessionKeepsFirst(cache, settings, sid, t) ==
  IF getConnectionKey(settings) \in DOMAIN cache THEN cache
  ELSE MapSet(cache, getConnectionKey(settings), NewEntry(sid, t))

cacheSession(cache, settings, sid, t) ==
  MapSet(cache, getConnectionKey(settings), NewEntry(sid, t))

\* Mutant: an invalidation clears the whole Map
removeSessionAll(cache, settings) == EmptyMap

\* sessionCache.delete(key)
removeSession(cache, settings) == MapDelete(cache, getConnectionKey(settings))

\* Mutant: the sweep removes the entries that were created before this
\* instant, expired or not
cleanupExpiredSessionsOlder(cache, t) ==
  [k \in {x \in DOMAIN cache : t <= cache[x].createdAt} |-> cache[k]]

cleanupExpiredSessions(cache, t) ==
  [k \in {x \in DOMAIN cache : ~IsExpired(cache[x], t)} |-> cache[k]]

\* ------------------------------------------------------------------------
\* Error messages are token sequences; markers such as "401" are tokens.
\* ------------------------------------------------------------------------
\* msg.includes(marker)
MsgIncludes(msg, marker) == \E i \in 1..Len(msg) : msg[i] = marker

\* throw new Error('Request cancelled by user')
CancelMsg == <<"Request cancelled by user">>

\* errorMessage.includes('401') || ... in the catch of POST
IsAuthError(msg) ==
  \/ MsgIncludes(msg, "401")
  \/ MsgIncludes(msg, "Unauthorized")
  \/ MsgIncludes(msg, "Session")
  \/ MsgIncludes(msg, "authentication")

\* errorMessage.includes('invalid') || errorMessage.includes('Property')
IsInvalidPropertyError(msg) ==
  MsgIncludes(msg, "invalid") \/ MsgIncludes(msg, "Property")

\* ------------------------------------------------------------------------
\* Filter parameters: a sequence of clauses joined by "&".  A "$top" clause
\* carries its number in num (NaN when the value has no digits), any other
\* clause its text.
\* ------------------------------------------------------------------------
TopClause(n) == [name |-> "$top", text |-> "", num |-> n]
FilterClause(t) == [name |-> "$filter", text |-> t, num |-> Null]

IsTopDigits(c) == c.name = "$top" /\ c.num >= 0

\* filterParams.includes('$top=')
HasTop(fp) == \E i \in 1..Len(fp) : fp[i].name = "$top"

FirstTopIndex(fp) ==
  IF \E i \in 1..Len(fp) : IsTopDigits(fp[i])
  THEN CHOOSE i \in 1..Len(fp) :
         IsTopDigits(fp[i]) /\ \A j \in 1..(i - 1) : ~IsTopDigits(fp[j])
  ELSE 0

\* filterParams.match(/\$top=(\d+)/), parseInt(topMatch[1], 10)
TopMatch(fp) == IF FirstTopIndex(fp) = 0 THEN Null ELSE fp[FirstTopIndex(fp)].num

\* queryParams.replace(/&\$top=\d+|^\$top=\d+&?|\$top=\d+/, '')
StripTop(fp) ==
  LET i == FirstTopIndex(fp)
  IN IF i = 0 THEN fp ELSE SubSeq(fp, 1, i - 1) \o SubSeq(fp, i + 1, Len(fp))

\* JavaScript truthiness of a number | null
Truthy(x) == x > 0

\* parseInt(String(v))
ParseInt(v) == IF v >= 0 THEN v ELSE NaN

\* ------------------------------------------------------------------------
\* Rows: allResults is a sequence of chunks, chunk [page, n, low] standing
\* for the first n rows of the answer to page request number `page`.
\* ------------------------------------------------------------------------
RECURSIVE RowCount(_)
RowCount(rows) ==
  IF rows = <<>> THEN 0 ELSE rows[1].n + RowCount(Tail(rows))

\* allResults.push(...pageResult.value.slice(0, k))
PushRows(rows, page, k, low) ==
  IF k = 0 THEN rows ELSE Append(rows, [page |-> page, n |-> k, low |-> low])

\* ------------------------------------------------------------------------
\* executeSAPB1Query: the locals of one call
\* ------------------------------------------------------------------------
NoFetch ==
  [phase |-> "none", sessionId |-> NoSession, objectName |-> "", filterParams |-> <<>>,
   fetchAll |-> FALSE, requestedLimit |-> Null, allResults |-> <<>>, skip |-> 0,
   hasMore |-> TRUE, totalCountFromServer |-> Null, consecutiveEmptyPages |-> 0,
   lastRecordsCount |-> -1, sameCountStreak |-> 0,
   \* history: the requests sent, the rows each answer carried (Null for an
   \* answer without a value array), the page that set totalCountFromServer
   issued |-> <<>>, received |-> <<>>, countPage |-> 0,
   \* the handler that made the call ("limit": part_000, "top50": route.ts)
   \* and whether it passed its abort signal
   route |-> "limit", signal |-> TRUE]

NewFetch(phase, sid, obj, fp, all, limit) ==
  [NoFetch EXCEPT !.phase = phase, !.sessionId = sid, !.objectName = obj,
                  !.filterParams = fp, !.fetchAll = all, !.requestedLimit = limit]

\* route.ts: executeSAPB1Query(sessionId, server, objectName, filterParams,
\* fetchAll, abortSignal?) has no requestedLimit
NewFetchTop50(phase, sid, obj, fp, all, hasSignal) ==
  [NoFetch EXCEPT !.phase = phase, !.sessionId = sid, !.objectName = obj,
                  !.filterParams = fp, !.fetchAll = all, !.route = "top50",
                  !.signal = hasSignal]

\* if (fetchAll || requestedLimit)
UsesPagination(f) == f.fetchAll \/ Truthy(f.requestedLimit)

\* Mutant: the signal is never looked at
AbortIgnored(sig) == FALSE

\* abortSignal?.aborted
AbortObserved(sig) == sig

\* Mutant: every page asks for the full page size
RecordsToFetchFullPage(limit, have) == pageSize

\* const recordsNeeded = requestedLimit ? requestedLimit - allResults.length : pageSize
\* const recordsToFetch = Math.min(recordsNeeded, pageSize)
RecordsToFetch(limit, have) ==
  Min(IF Truthy(limit) THEN limit - have ELSE pageSize, pageSize)

\* if (requestedLimit && allResults.length >= requestedLimit)
LimitReached(limit, have) == Truthy(limit) /\ have >= limit

\* Mutant: the whole page is pushed
RecordsToAddAll(limit, have, recordsReceived) == recordsReceived

\* const recordsToAdd = Math.min(recordsReceived, requestedLimit - allResults.length)
RecordsToAdd(limit, have, recordsReceived) ==
  IF Truthy(limit) THEN Min(recordsReceived, limit - have) ELSE recordsReceived

\* The page request built at the top of the loop.  route.ts keeps the
\* filter as it is and adds $top=pageSize only when the filter has no $top.
PageRequest(f) ==
  IF f.route = "top50"
  THEN [skip |-> f.skip,
        top |-> IF HasTop(f.filterParams) THEN Null ELSE pageSize,
        params |-> f.filterParams,
        sessionId |-> f.sessionId,
        objectName |-> f.objectName]
  ELSE [skip |-> f.skip,
        top |-> RecordsToFetch(f.requestedLimit, RowCount(f.allResults)),
        params |-> StripTop(f.filterParams),
        sessionId |-> f.sessionId,
        objectName |-> f.objectName]

\* The count hint of a response: the first of '@odata.count', 'odata.count',
\* 'count' that is neither undefined nor null
CountHint(hint) ==
  IF hint.atCount # Null THEN ParseInt(hint.atCount)
  ELSE IF hint.odCount # Null THEN ParseInt(hint.odCount)
  ELSE IF hint.count # Null THEN ParseInt(hint.count)
  ELSE Null

\* if (totalCountFromServer !== null && totalCountFromServer > 0)
CountKnown(total) == total # Null /\ total > 0

\* Mutant: one page too many
CountSatisfiedStrict(have, total) == have > total

\* if (allResults.length >= totalCountFromServer)
CountSatisfied(have, total) == have >= total

\* Mutant: the offset advances by the nominal page size
ActualIncrementNominal(recordsReceived) ==
  IF recordsReceived > 0 THEN pageSize ELSE EmptyPageIncrement

\* Mutant: the offset advances by one row less than received
ActualIncrementOverlap(recordsReceived) ==
  IF recordsReceived > 0 THEN recordsReceived - 1 ELSE EmptyPageIncrement

\* Mutant: the offset advances by the rows received, also when there are none
ActualIncrementRowsOnly(recordsReceived) == recordsReceived

\* const actualIncrement = recordsReceived > 0 ? recordsReceived : 20
ActualIncrement(recordsReceived) ==
  IF recordsReceived > 0 THEN recordsReceived ELSE EmptyPageIncrement

\* Mutant: two empty pages end the fetch
EmptyPagesExhaustedEarly(n) == n >= MaxConsecutiveEmpty - 1

\* if (consecutiveEmptyPages >= 3)
EmptyPagesExhausted(n) == n >= MaxConsecutiveEmpty

\* Mutant: no ceiling
SafetyLimitNever(skip) == FALSE

\* if (skip >= 100000)
SafetyLimitReached(skip) == skip >= SafetyLimit

\* The part of the loop body after the rows were pushed and the limit was
\* not reached: count hint, termination rules, offset
AfterPush(f, recordsReceived, hint) ==
  LET total == IF f.totalCountFromServer = Null THEN CountHint(hint)
               ELSE f.totalCountFromServer
      g == [f EXCEPT !.totalCountFromServer = total,
                     !.countPage = IF f.totalCountFromServer = Null /\ total # Null
                                   THEN Len(f.issued) ELSE f.countPage]
      have == RowCount(f.allResults)
  IN IF CountKnown(total)
     THEN IF CountSatisfied(have, total)
          THEN [g EXCEPT !.hasMore = FALSE]
          ELSE [g EXCEPT !.skip = f.skip + ActualIncrement(recordsReceived)]
     ELSE IF recordsReceived > 0
          THEN [g EXCEPT !.consecutiveEmptyPages = 0,
                         !.sameCountStreak =
                            IF recordsReceived = f.lastRecordsCount
                            THEN f.sameCountStreak + 1 ELSE 0,
                         !.lastRecordsCount = recordsReceived,
                         !.skip = f.skip + ActualIncrement(recordsReceived)]
          ELSE IF EmptyPagesExhausted(f.consecutiveEmptyPages + 1)
               THEN [g EXCEPT !.consecutiveEmptyPages = f.consecutiveEmptyPages + 1,
                              !.hasMore = FALSE]
               ELSE [g EXCEPT !.consecutiveEmptyPages = f.consecutiveEmptyPages + 1,
                              !.skip = f.skip + ActualIncrement(recordsReceived)]

\* Mutant: the loop body ends without the safety limit
SafetyCheckSkipped(f) == f

\* The safety limit at the end of the loop body
SafetyCheck(f) ==
  IF SafetyLimitReached(f.skip) THEN [f EXCEPT !.hasMore = FALSE] ELSE f

\* The loop body after a page answered with a value array of recordsReceived
\* rows.  Reaching the requested limit breaks out of the loop at once.
ProcessPage(f, recordsReceived, hint, low) ==
  LET have == RowCount(f.allResults)
      k == RecordsToAdd(f.requestedLimit, have, recordsReceived)
      pushed == [f EXCEPT !.allResults = PushRows(f.allResults, Len(f.issued), k, low),
                          !.received = Append(f.received, recordsReceived)]
  IN IF LimitReached(f.requestedLimit, have + k)
     THEN [pushed EXCEPT !.hasMore = FALSE]
     ELSE SafetyCheck(AfterPush(pushed, recordsReceived, hint))

\* else { hasMore = false }: no value array in the response
ProcessNoArray(f) ==
  SafetyCheck([f EXCEPT !.hasMore = FALSE, !.received = Append(f.received, Null)])

\* ------------------------------------------------------------------------
\* State
\* ------------------------------------------------------------------------
VARIABLES
  sessionCache,   \* the Map of lib/session-manager
  now,            \* Date.now(), in milliseconds
  ticks,          \* how often the clock advanced
  nextSession,    \* the SessionId the upstream hands out at the next login
  requests,       \* POST requests received so far
  pc,             \* where the POST handler is
  aborted,        \* request.signal.aborted
  body,           \* the request body: settings and the query text's traits
  sessionId,      \* POST: const sessionId
  newSessionId,   \* POST: const newSessionId
  queryResult,    \* POST: queryResult {objectName, filterParams}
  login,          \* the running loginToSAPB1 call: forceNew and its result
  fetch,          \* the running executeSAPB1Query call: its locals
  thrown,         \* the message of the error executeSAPB1Query threw
  result,         \* POST: let result
  response,       \* the NextResponse returned
  loginPosts,     \* login POSTs sent upstream during this request
  fetchCalls,     \* executeSAPB1Query calls made during this request
  obs,            \* history of this request: where the client aborted, the
                  \* error of the first call, the forced logins
  puts,           \* history: per connection, the last session cached and
                  \* not invalidated since, with the time it was cached
  calls,          \* the loginToSAPB1 and test-connection calls of concurrent
                  \* route handlers, one record per caller
  swept,          \* history: the keys the cleanup timer removed
  nl              \* history: the query text and the object and filter the
                  \* OpenAI answer named, before validation

vars == <<sessionCache, now, ticks, nextSession, requests, pc, aborted, body,
          sessionId, newSessionId, queryResult, login, fetch, thrown, result,
          response, loginPosts, fetchCalls, obs, puts, calls, swept, nl>>

cacheVars == <<sessionCache, now, ticks, nextSession, puts, calls, swept, nl>>

\* The awaits of the handler: only there the environment acts
AwaitPcs == {"login_wait", "nl_wait", "page_wait", "single_wait", "chart_wait"}

NoResponse == [status |-> 0, error |-> <<>>, rows |-> <<>>, chart |-> "",
               recommended |-> <<>>]
NoResult == [shape |-> "none", rows |-> <<>>]
NoLogin == [forceNew |-> FALSE, result |-> NoSession]
NoFields == [date |-> FALSE, numeric |-> FALSE, categorical |-> FALSE,
             unique |-> 0, timeTerms |-> FALSE]
NoObs == [cancelPc |-> "", cancelFetch |-> 0, cancelPages |-> 0,
          firstThrown |-> <<>>, forcedLogins |-> 0,
          \* the chart step: what the rows and the query text look like and
          \* how the OpenAI call ended
          fields |-> NoFields, chartAnswer |-> ""]
NoQuery == [objectName |-> "", filterParams |-> <<>>]
NoBody == [settings |-> [sapServer |-> <<>>, companyDB |-> <<>>, userName |-> <<>>,
                         password |-> ""],
           lowStockQuery |-> FALSE]

\* The concurrent callers and the record of a caller that has not called yet
NoNL == [query |-> <<>>, objectName |-> "", filterParams |-> <<>>]
Callers == {1, 2}
NoCall == [kind |-> "none", state |-> "idle", settings |-> NoBody.settings,
           forceNew |-> FALSE, answer |-> "", result |-> NoSession,
           posts |-> 0, concurrent |-> FALSE, n |-> 0]
NoCalls == [c \in Callers |-> NoCall]

ErrorResponse(status, msg) == [NoResponse EXCEPT !.status = status, !.error = msg]

\* ------------------------------------------------------------------------
\* Inputs
\* ------------------------------------------------------------------------
Server1 == <<"https://sap1:50000">>
Server2 == <<"https://sap2:50000">>

MkSettings(server, pw) ==
  [sapServer |-> server, companyDB |-> <<"SBODEMO">>, userName |-> <<"manager">>,
   password |-> pw]

\* One connection, written the ways the same server can be written, and a
\* second server
SettingsInputs ==
  {MkSettings(Server1, "pw1"),
   MkSettings(Server1 \o <<"/">>, "pw1"),
   MkSettings(Server1 \o LoginPath, "pw2"),
   MkSettings(Server2 \o ApiPath \o <<"/">>, "pw1")}

OneSettings == {MkSettings(Server1, "pw1")}

\* The hosts written as absolute URLs, and a server written without scheme
AbsoluteHosts == {Server1[1], Server2[1]}
BadServer == <<"sap1">>

\* What concurrent callers pass to loginToSAPB1: the same connection under
\* two passwords and two spellings, a settings object without sapServer and
\* one with a server that is no URL
SettingsLogin ==
  {MkSettings(Server1, "pw1"),
   MkSettings(Server1 \o LoginPath, "pw2"),
   MkSettings(Undefined, "pw1"),
   MkSettings(BadServer, "pw1")}

\* What the settings panel sends to the test-connection route
SettingsTest ==
  {MkSettings(Server2 \o ApiPath \o <<"/">>, "pw1"),
   MkSettings(Undefined, "pw1")}

\* What the login endpoint can answer
LoginAnswers == {"token", "notoken", "non2xx", "neterr", "badjson"}

\* What generateQueryFromNaturalLanguage can return
ObjectInputs == {"Items", "Orders"}
FilterInputs ==
  {<<>>,
   <<FilterClause("f")>>,
   <<FilterClause("f"), TopClause(2)>>,
   <<TopClause(0)>>}
FilterInputsWide ==
  {<<>>,
   <<FilterClause("f"), TopClause(10)>>,
   <<TopClause(1037)>>,
   <<TopClause(0)>>,
   <<TopClause(NaN)>>,
   <<TopClause(3), FilterClause("f"), TopClause(5)>>}

\* The messages makeSAPB1Request throws
\* `SAP B1 Query failed: ${response.status} ${response.statusText} - ${errorText}`
HttpErrorMsg(status, statusText, errorText) ==
  <<"SAP B1 Query failed: ", status, " ", statusText, " - ">> \o errorText
\* `Failed to parse JSON: ${data}`
ParseErrorMsg(data) == <<"Failed to parse JSON: ">> \o data
\* pageResult.value of a null body
NullBodyMsg == <<"Cannot read properties of null (reading 'value')">>

NoHint == [atCount |-> Null, odCount |-> Null, count |-> Null]
HintAt(n) == [NoHint EXCEPT !.atCount = n]
HintCount(n) == [NoHint EXCEPT !.count = n]

RowsAnswer(n, hint, low) == [kind |-> "rows", n |-> n, hint |-> hint, low |-> low, msg |-> <<>>]
ShapeAnswer(kind, n) == [kind |-> kind, n |-> n, hint |-> NoHint, low |-> FALSE, msg |-> <<>>]
ErrorAnswer(msg) == [kind |-> "error", n |-> 0, hint |-> NoHint, low |-> FALSE, msg |-> msg]

ErrorAnswers ==
  {ErrorAnswer(HttpErrorMsg("401", "Unauthorized", <<"Invalid session or session already timeout.">>)),
   ErrorAnswer(HttpErrorMsg("400", "Bad Request", <<"Property", " 'Foo' of 'Item' is ", "invalid">>)),
   ErrorAnswer(HttpErrorMsg("500", "Internal Server Error", <<>>)),
   ErrorAnswer(<<"Request timeout: SAP B1 query took too long">>),
   ErrorAnswer(ParseErrorMsg(<<"<html>", "Session", " expired</html>">>))}

OtherShapeAnswers ==
  {ShapeAnswer("array", 2), ShapeAnswer("object", 0), ShapeAnswer("nullbody", 0)}

\* ------------------------------------------------------------------------
\* Init
\* ------------------------------------------------------------------------
Init ==
  /\ sessionCache = EmptyMap
  /\ now = 0
  /\ ticks = 0
  /\ nextSession = 1
  /\ requests = 0
  /\ pc = "idle"
  /\ aborted = FALSE
  /\ body = NoBody
  /\ sessionId = NoSession
  /\ newSessionId = NoSession
  /\ queryResult = NoQuery
  /\ login = NoLogin
  /\ fetch = NoFetch
  /\ thrown = <<>>
  /\ result = NoResult
  /\ response = NoResponse
  /\ loginPosts = 0
  /\ fetchCalls = 0
  /\ obs = NoObs
  /\ puts = EmptyMap
  /\ calls = NoCalls
  /\ swept = {}
  /\ nl = NoNL

\* ------------------------------------------------------------------------
\* POST: from the request to the first login
\* ------------------------------------------------------------------------
PostStart(settingsSet, lowSet, abortSet) ==
  /\ pc \in {"idle", "done"}
  /\ requests < MaxRequests
  /\ requests' = requests + 1
  /\ \E hasQuery \in BOOLEAN, hasSettings \in BOOLEAN, st \in settingsSet,
        low \in lowSet, ab \in abortSet :
       /\ aborted' = ab
       /\ body' = [settings |-> st, lowStockQuery |-> low]
       /\ IF ~hasQuery
          THEN /\ response' = ErrorResponse(400, <<"Query is required">>)
               /\ pc' = "done"
          ELSE IF ~hasSettings
          THEN /\ response' = ErrorResponse(400, <<"Settings are required">>)
               /\ pc' = "done"
          ELSE /\ response' = NoResponse
               /\ pc' = "login_start"
  /\ sessionId' = NoSession
  /\ newSessionId' = NoSession
  /\ queryResult' = NoQuery
  /\ login' = NoLogin
  /\ fetch' = NoFetch
  /\ thrown' = <<>>
  /\ result' = NoResult
  /\ loginPosts' = 0
  /\ fetchCalls' = 0
  /\ obs' = NoObs
  /\ UNCHANGED cacheVars

\* ------------------------------------------------------------------------
\* loginToSAPB1
\* ------------------------------------------------------------------------
\* History: the connection a request names is its host, database and user
Identity(settings) ==
  <<settings.sapServer[1], settings.companyDB, settings.userName>>

\* new URL(loginUrl) throws for a server URL that is not absolute
UrlThrows(settings) ==
  LET serverUrl == NormalizeServer(settings.sapServer)
  IN serverUrl = <<>> \/ Head(serverUrl) \notin AbsoluteHosts

\* settings.sapServer.trim() on undefined
TrimErrorMsg == <<"Cannot read properties of undefined (reading 'trim')">>

\* loginToSAPB1 up to its first await: the cache lookup unless forceNew
\* (outside the try), then inside the try the login URL; the catch calls
\* removeSession, which computes the connection key once more.  state is
\* "returned" with the result, "threw", or "wait" with the login POST sent.
LoginSync(cache, settings, forceNew, t) ==
  IF ~forceNew /\ TrimThrows(settings)
  THEN [state |-> "threw", result |-> NoSession, cache |-> cache, removed |-> FALSE]
  ELSE LET cached == IF forceNew THEN NoSession
                     ELSE getCachedSession(cache, settings, t)
           looked == IF forceNew THEN cache
                     ELSE getCachedSessionCache(cache, settings, t)
       IN IF cached # NoSession
          THEN [state |-> "returned", result |-> cached, cache |-> looked,
                removed |-> FALSE]
          ELSE IF TrimThrows(settings)
          THEN [state |-> "threw", result |-> NoSession, cache |-> looked,
                removed |-> FALSE]
          ELSE IF UrlThrows(settings)
          THEN [state |-> "returned", result |-> NoSession,
                cache |-> removeSession(looked, settings), removed |-> TRUE]
          ELSE [state |-> "wait", result |-> NoSession, cache |-> looked,
                removed |-> FALSE]

\* The synchronous start of loginToSAPB1 in POST; an exception leaving
\* loginToSAPB1 reaches the outer catch of POST
LoginStart ==
  /\ pc = "login_start"
  /\ LET r == LoginSync(sessionCache, body.settings, login.forceNew, now)
     IN /\ sessionCache' = r.cache
        /\ puts' = IF r.removed THEN MapDelete(puts, Identity(body.settings)) ELSE puts
        /\ login' = [login EXCEPT !.result = r.result]
        /\ loginPosts' = IF r.state = "wait" THEN loginPosts + 1 ELSE loginPosts
        /\ pc' = IF r.state = "wait" THEN "login_wait"
                 ELSE IF r.state = "returned" THEN "login_returned" ELSE "done"
        /\ response' = IF r.state = "threw" THEN ErrorResponse(500, TrimErrorMsg)
                       ELSE response
  /\ UNCHANGED <<now, ticks, nextSession, requests, aborted, body, sessionId,
                 newSessionId, queryResult, fetch, thrown, result,
                 fetchCalls, obs, calls, swept, nl>>

\* The session id loginToSAPB1 returns for an answer of the login endpoint
LoginResult(answer, sid) == IF answer = "token" THEN sid ELSE NoSession

\* Mutant: a failed login leaves the cache alone
LoginCacheKeepsOnFailure(cache, settings, forceNew, answer, sid, t) ==
  IF answer = "token" THEN cacheSession(cache, settings, sid, t)
  ELSE IF answer = "notoken"
       THEN IF forceNew THEN removeSession(cache, settings) ELSE cache
  ELSE cache

\* Mutant: a login without token always invalidates
LoginCacheAlwaysRemoves(cache, settings, forceNew, answer, sid, t) ==
  IF answer = "token" THEN cacheSession(cache, settings, sid, t)
  ELSE removeSession(cache, settings)

\* The Map after loginToSAPB1 handled the answer
LoginCache(cache, settings, forceNew, answer, sid, t) ==
  IF answer = "token" THEN cacheSession(cache, settings, sid, t)
  ELSE IF answer = "notoken"
       THEN IF forceNew THEN removeSession(cache, settings) ELSE cache
  ELSE removeSession(cache, settings)

\* History: cacheSession records a put, removeSession an invalidation
LoginPuts(p, settings, forceNew, answer, sid, t) ==
  IF answer = "token"
  THEN MapSet(p, Identity(settings),
              [sessionId |-> sid, at |-> t, password |-> settings.password])
  ELSE IF answer = "notoken" /\ ~forceNew THEN p
  ELSE MapDelete(p, Identity(settings))

LoginResponse(answers) ==
  /\ pc = "login_wait"
  /\ \E answer \in answers :
       /\ login' = [login EXCEPT !.result = LoginResult(answer, nextSession)]
       /\ sessionCache' = LoginCache(sessionCache, body.settings, login.forceNew,
                                     answer, nextSession, now)
       /\ nextSession' = IF answer = "token" THEN nextSession + 1 ELSE nextSession
       /\ puts' = LoginPuts(puts, body.settings, login.forceNew, answer,
                             nextSession, now)
  /\ pc' = "login_returned"
  /\ UNCHANGED <<now, ticks, requests, aborted, body, sessionId, newSessionId,
                 queryResult, fetch, thrown, result, response, loginPosts,
                 fetchCalls, obs, calls, swept, nl>>

\* POST after a loginToSAPB1 call returned: the first login, or the forced
\* one of the auth-failure retry
LoginReturned ==
  /\ pc = "login_returned"
  /\ IF ~login.forceNew
     THEN /\ sessionId' = login.result
          /\ IF login.result = NoSession
             THEN /\ response' = ErrorResponse(401,
                       <<"Failed to authenticate with SAP B1. Please check your credentials.">>)
                  /\ pc' = "done"
             ELSE /\ pc' = "nl_wait"
                  /\ UNCHANGED response
          /\ UNCHANGED <<newSessionId, fetch, fetchCalls>>
     ELSE /\ newSessionId' = login.result
          /\ IF login.result # NoSession
             THEN /\ fetch' = NewFetch("authRetry", login.result, queryResult.objectName,
                                       queryResult.filterParams,
                                       ~HasTop(queryResult.filterParams),
                                       TopMatch(queryResult.filterParams))
                  /\ fetchCalls' = fetchCalls + 1
                  /\ pc' = "fetch_start"
                  /\ UNCHANGED response
             ELSE /\ response' = ErrorResponse(401,
                       <<"Session expired and failed to create new session. Please check your credentials.">>)
                  /\ pc' = "done"
                  /\ UNCHANGED <<fetch, fetchCalls>>
          /\ UNCHANGED sessionId
  /\ UNCHANGED <<cacheVars, requests, aborted, body, queryResult, login, thrown,
                 result, loginPosts, obs>>

\* ------------------------------------------------------------------------
\* POST: the natural-language step, the cancellation check and the first
\* executeSAPB1Query call
\* ------------------------------------------------------------------------
NLResponse(objects, filters) ==
  /\ pc = "nl_wait"
  /\ \/ /\ response' = ErrorResponse(500, <<"Failed to generate query: ", "OpenAI API error">>)
        /\ pc' = "done"
        /\ UNCHANGED <<queryResult, fetch, fetchCalls>>
     \/ \E obj \in objects, fp \in filters :
          /\ queryResult' = [objectName |-> obj, filterParams |-> fp]
          /\ IF aborted
             THEN /\ response' = ErrorResponse(499, CancelMsg)
                  /\ pc' = "done"
                  /\ UNCHANGED <<fetch, fetchCalls>>
             ELSE /\ fetch' = NewFetch("first", sessionId, obj, fp, ~HasTop(fp), TopMatch(fp))
                  /\ fetchCalls' = fetchCalls + 1
                  /\ pc' = "fetch_start"
                  /\ UNCHANGED response
  /\ UNCHANGED <<cacheVars, requests, aborted, body, sessionId, newSessionId,
                 login, thrown, result, loginPosts, obs>>

\* ------------------------------------------------------------------------
\* generateQueryFromNaturalLanguage: validation of the object name the
\* OpenAI answer carries.  The query text and the spelling of a name are
\* sequences of characters.
\* ------------------------------------------------------------------------
\* const SAP_B1_OBJECTS = [...]: the 283 names in the order of the source
SAP_B1_OBJECTS ==
  <<"AccountCategory", "AccountSegmentationCategories",
    "AccountSegmentations", "AccrualTypes", "Activities",
    "ActivityLocations", "ActivityRecipientLists", "ActivityStatuses",
    "ActivityTypes", "AdditionalExpenses", "AlertManagements",
    "AlternateCatNum", "ApprovalRequests", "ApprovalStages",
    "ApprovalTemplates", "AssetCapitalization",
    "AssetCapitalizationCreditMemo", "AssetClasses",
    "AssetDepreciationGroups", "AssetGroups", "AssetManualDepreciation",
    "AssetRetirement", "AssetTransfer", "Attachments2", "AttributeGroups",
    "B1Sessions", "BankChargesAllocationCodes", "BankPages", "Banks",
    "BankStatements", "BarCodes", "BatchNumberDetails",
    "BEMReplicationPeriods", "BillOfExchangeTransactions",
    "BinLocationAttributes", "BinLocationFields", "BinLocations",
    "BlanketAgreements", "BOEDocumentTypes", "BOEInstructions",
    "BOEPortfolios", "BPFiscalRegistryID", "BPPriorities", "Branches",
    "BrazilBeverageIndexers", "BrazilFuelIndexers", "BrazilMultiIndexers",
    "BrazilNumericIndexers", "BrazilStringIndexers", "BudgetDistributions",
    "Budgets", "BudgetScenarios", "BusinessPartnerGroups",
    "BusinessPartnerProperties", "BusinessPartners", "BusinessPlaces",
    "CampaignResponseType", "Campaigns", "CashDiscounts",
    "CashFlowLineItems", "CertificateSeries", "ChartOfAccounts",
    "ChecksforPayment", "ChooseFromList", "ClosingDateProcedure", "Cockpits",
    "CommissionGroups", "Contacts", "ContractTemplates", "CorrectionInvoice",
    "CorrectionInvoiceReversal", "CorrectionPurchaseInvoice",
    "CorrectionPurchaseInvoiceReversal", "CostCenterTypes", "CostElements",
    "Countries", "CreditCardPayments", "CreditCards", "CreditNotes",
    "CreditPaymentMethods", "Currencies", "CustomerEquipmentCards",
    "CustomsDeclaration", "CustomsGroups", "CycleCountDeterminations",
    "DeductionTaxGroups", "DeductionTaxHierarchies", "DeductionTaxSubGroups",
    "DeliveryNotes", "Departments", "Deposits", "DepreciationAreas",
    "DepreciationTypePools", "DepreciationTypes", "DeterminationCriterias",
    "Dimensions", "DistributionRules", "DNFCodeSetup", "DownPayments",
    "Drafts", "DunningLetters", "DunningTerms", "DynamicSystemStrings",
    "ElectronicFileFormats", "EmailGroups", "EmployeeIDType",
    "EmployeePosition", "EmployeeRolesSetup", "EmployeesInfo",
    "EmployeeStatus", "EmployeeTransfers", "EmploymentCategorys",
    "EnhancedDiscountGroups", "ExceptionalEvents", "ExtendedTranslations",
    "FAAccountDeterminations", "FactoringIndicators", "FinancialYears",
    "FiscalPrinter", "FormattedSearches", "FormPreferences", "Forms1099",
    "GLAccountAdvancedRules", "GoodsReturnRequest", "GovPayCodes",
    "Holidays", "HouseBankAccounts", "IncomingPayments", "Industries",
    "IntegrationPackagesConfigure", "InternalReconciliations",
    "IntrastatConfiguration", "InventoryCountings", "InventoryCycles",
    "InventoryGenEntries", "InventoryGenExits", "InventoryOpeningBalances",
    "InventoryPostings", "InventoryTransferRequests", "Invoices",
    "ItemGroups", "ItemImages", "ItemProperties", "Items", "JournalEntries",
    "JournalEntryDocumentTypes", "KnowledgeBaseSolutions", "KPIs",
    "LandedCosts", "LandedCostsCodes", "LegalData", "LengthMeasures",
    "LocalEra", "Manufacturers", "MaterialGroups", "MaterialRevaluation",
    "Messages", "MobileAddOnSetting", "MultiLanguageTranslations",
    "NatureOfAssessees", "NCMCodesSetup", "NFModels", "NFTaxCategories",
    "NotaFiscalCFOP", "NotaFiscalCST", "NotaFiscalUsage", "OccurrenceCodes",
    "Orders", "PackagesTypes", "PartnersSetups", "PaymentBlocks",
    "PaymentDrafts", "PaymentReasonCodes", "PaymentRunExport",
    "PaymentTermsTypes", "PickLists", "POSDailySummary", "PredefinedTexts",
    "PriceLists", "ProductionOrders", "ProductTrees", "ProfitCenters",
    "ProjectManagements", "ProjectManagementTimeSheet", "Projects",
    "PurchaseCreditNotes", "PurchaseDeliveryNotes", "PurchaseDownPayments",
    "PurchaseInvoices", "PurchaseOrders", "PurchaseQuotations",
    "PurchaseRequests", "PurchaseReturns", "PurchaseTaxInvoices",
    "QueryAuthGroups", "QueryCategories", "Queue", "Quotations",
    "Relationships", "ReportFilter", "ReportTypes", "ResourceCapacities",
    "ResourceGroups", "ResourceProperties", "Resources", "RetornoCodes",
    "ReturnRequest", "Returns", "RouteStages", "SalesForecast",
    "SalesOpportunities", "SalesOpportunityCompetitorsSetup",
    "SalesOpportunityInterestsSetup", "SalesOpportunityReasonsSetup",
    "SalesOpportunitySourcesSetup", "SalesPersons", "SalesStages",
    "SalesTaxAuthorities", "SalesTaxAuthoritiesTypes", "SalesTaxCodes",
    "SalesTaxInvoices", "Sections", "SerialNumberDetails",
    "ServiceCallOrigins", "ServiceCallProblemSubTypes",
    "ServiceCallProblemTypes", "ServiceCalls", "ServiceCallSolutionStatus",
    "ServiceCallStatus", "ServiceCallTypes", "ServiceContracts",
    "ServiceGroups", "ShippingTypes", "SpecialPrices", "States",
    "StockTakings", "StockTransferDrafts", "StockTransfers", "TargetGroups",
    "TaxCodeDeterminations", "TaxCodeDeterminationsTCD", "TaxInvoiceReport",
    "TaxWebSites", "Teams", "TerminationReason", "Territories",
    "TrackingNotes", "TransactionCodes", "TransportationDocuments",
    "TSRExceptionalEvents", "UnitOfMeasurementGroups", "UnitOfMeasurements",
    "UserDefaultGroups", "UserFieldsMD", "UserKeysMD", "UserLanguages",
    "UserObjectsMD", "UserPermissionTree", "UserQueries", "Users",
    "UserTablesMD", "ValueMapping", "ValueMappingCommunication", "VatGroups",
    "VendorPayments", "WarehouseLocations", "Warehouses",
    "WarehouseSublevelCodes", "WebClientBookmarkTiles",
    "WebClientDashboards", "WebClientFormSettings", "WebClientLaunchpads",
    "WebClientListviewFilters", "WebClientNotifications",
    "WebClientPreferences", "WebClientRecentActivities",
    "WebClientVariantGroups", "WebClientVariants", "WeightMeasures",
    "WithholdingTaxCodes", "WitholdingTaxDefinition", "WizardPaymentMethods",
    "WTaxTypeCodes">>

\* The characters of a listed name
Spelling(obj) ==
  CASE obj = "AccountCategory" ->
         <<"A", "c", "c", "o", "u", "n", "t", "C", "a", "t", "e", "g", "o", "r", "y">>
    [] obj = "AccountSegmentationCategories" ->
         <<"A", "c", "c", "o", "u", "n", "t", "S", "e", "g", "m", "e", "n", "t", "a", "t", "i", "o", "n", "C", "a", "t", "e", "g", "o", "r", "i", "e", "s">>
    [] obj = "AccountSegmentations" ->
         <<"A", "c", "c", "o", "u", "n", "t", "S", "e", "g", "m", "e", "n", "t", "a", "t", "i", "o", "n", "s">>
    [] obj = "AccrualTypes" ->
         <<"A", "c", "c", "r", "u", "a", "l", "T", "y", "p", "e", "s">>
    [] obj = "Activities" ->
         <<"A", "c", "t", "i", "v", "i", "t", "i", "e", "s">>
    [] obj = "ActivityLocations" ->
         <<"A", "c", "t", "i", "v", "i", "t", "y", "L", "o", "c", "a", "t", "i", "o", "n", "s">>
    [] obj = "ActivityRecipientLists" ->
         <<"A", "c", "t", "i", "v", "i", "t", "y", "R", "e", "c", "i", "p", "i", "e", "n", "t", "L", "i", "s", "t", "s">>
    [] obj = "ActivityStatuses" ->
         <<"A", "c", "t", "i", "v", "i", "t", "y", "S", "t", "a", "t", "u", "s", "e", "s">>
    [] obj = "ActivityTypes" ->
         <<"A", "c", "t", "i", "v", "i", "t", "y", "T", "y", "p", "e", "s">>
    [] obj = "AdditionalExpenses" ->
         <<"A", "d", "d", "i", "t", "i", "o", "n", "a", "l", "E", "x", "p", "e", "n", "s", "e", "s">>
    [] obj = "AlertManagements" ->
         <<"A", "l", "e", "r", "t", "M", "a", "n", "a", "g", "e", "m", "e", "n", "t", "s">>
    [] obj = "AlternateCatNum" ->
         <<"A", "l", "t", "e", "r", "n", "a", "t", "e", "C", "a", "t", "N", "u", "m">>
    [] obj = "ApprovalRequests" ->
         <<"A", "p", "p", "r", "o", "v", "a", "l", "R", "e", "q", "u", "e", "s", "t", "s">>
    [] obj = "ApprovalStages" ->
         <<"A", "p", "p", "r", "o", "v", "a", "l", "S", "t", "a", "g", "e", "s">>
    [] obj = "ApprovalTemplates" ->
         <<"A", "p", "p", "r", "o", "v", "a", "l", "T", "e", "m", "p", "l", "a", "t", "e", "s">>
    [] obj = "AssetCapitalization" ->
         <<"A", "s", "s", "e", "t", "C", "a", "p", "i", "t", "a", "l", "i", "z", "a", "t", "i", "o", "n">>
    [] obj = "AssetCapitalizationCreditMemo" ->
         <<"A", "s", "s", "e", "t", "C", "a", "p", "i", "t", "a", "l", "i", "z", "a", "t", "i", "o", "n", "C", "r", "e", "d", "i", "t", "M", "e", "m", "o">>
    [] obj = "AssetClasses" ->
         <<"A", "s", "s", "e", "t", "C", "l", "a", "s", "s", "e", "s">>
    [] obj = "AssetDepreciationGroups" ->
         <<"A", "s", "s", "e", "t", "D", "e", "p", "r", "e", "c", "i", "a", "t", "i", "o", "n", "G", "r", "o", "u", "p", "s">>
    [] obj = "AssetGroups" ->
         <<"A", "s", "s", "e", "t", "G", "r", "o", "u", "p", "s">>
    [] obj = "AssetManualDepreciation" ->
         <<"A", "s", "s", "e", "t", "M", "a", "n", "u", "a", "l", "D", "e", "p", "r", "e", "c", "i", "a", "t", "i", "o", "n">>
    [] obj = "AssetRetirement" ->
         <<"A", "s", "s", "e", "t", "R", "e", "t", "i", "r", "e", "m", "e", "n", "t">>
    [] obj = "AssetTransfer" ->
         <<"A", "s", "s", "e", "t", "T", "r", "a", "n", "s", "f", "e", "r">>
    [] obj = "Attachments2" ->
         <<"A", "t", "t", "a", "c", "h", "m", "e", "n", "t", "s", "2">>
    [] obj = "AttributeGroups" ->
         <<"A", "t", "t", "r", "i", "b", "u", "t", "e", "G", "r", "o", "u", "p", "s">>
    [] obj = "B1Sessions" ->
         <<"B", "1", "S", "e", "s", "s", "i", "o", "n", "s">>
    [] obj = "BankChargesAllocationCodes" ->
         <<"B", "a", "n", "k", "C", "h", "a", "r", "g", "e", "s", "A", "l", "l", "o", "c", "a", "t", "i", "o", "n", "C", "o", "d", "e", "s">>
    [] obj = "BankPages" ->
         <<"B", "a", "n", "k", "P", "a", "g", "e", "s">>
    [] obj = "Banks" ->
         <<"B", "a", "n", "k", "s">>
    [] obj = "BankStatements" ->
         <<"B", "a", "n", "k", "S", "t", "a", "t", "e", "m", "e", "n", "t", "s">>
    [] obj = "BarCodes" ->
         <<"B", "a", "r", "C", "o", "d", "e", "s">>
    [] obj = "BatchNumberDetails" ->
         <<"B", "a", "t", "c", "h", "N", "u", "m", "b", "e", "r", "D", "e", "t", "a", "i", "l", "s">>
    [] obj = "BEMReplicationPeriods" ->
         <<"B", "E", "M", "R", "e", "p", "l", "i", "c", "a", "t", "i", "o", "n", "P", "e", "r", "i", "o", "d", "s">>
    [] obj = "BillOfExchangeTransactions" ->
         <<"B", "i", "l", "l", "O", "f", "E", "x", "c", "h", "a", "n", "g", "e", "T", "r", "a", "n", "s", "a", "c", "t", "i", "o", "n", "s">>
    [] obj = "BinLocationAttributes" ->
         <<"B", "i", "n", "L", "o", "c", "a", "t", "i", "o", "n", "A", "t", "t", "r", "i", "b", "u", "t", "e", "s">>
    [] obj = "BinLocationFields" ->
         <<"B", "i", "n", "L", "o", "c", "a", "t", "i", "o", "n", "F", "i", "e", "l", "d", "s">>
    [] obj = "BinLocations" ->
         <<"B", "i", "n", "L", "o", "c", "a", "t", "i", "o", "n", "s">>
    [] obj = "BlanketAgreements" ->
         <<"B", "l", "a", "n", "k", "e", "t", "A", "g", "r", "e", "e", "m", "e", "n", "t", "s">>
    [] obj = "BOEDocumentTypes" ->
         <<"B", "O", "E", "D", "o", "c", "u", "m", "e", "n", "t", "T", "y", "p", "e", "s">>
    [] obj = "BOEInstructions" ->
         <<"B", "O", "E", "I", "n", "s", "t", "r", "u", "c", "t", "i", "o", "n", "s">>
    [] obj = "BOEPortfolios" ->
         <<"B", "O", "E", "P", "o", "r", "t", "f", "o", "l", "i", "o", "s">>
    [] obj = "BPFiscalRegistryID" ->
         <<"B", "P", "F", "i", "s", "c", "a", "l", "R", "e", "g", "i", "s", "t", "r", "y", "I", "D">>
    [] obj = "BPPriorities" ->
         <<"B", "P", "P", "r", "i", "o", "r", "i", "t", "i", "e", "s">>
    [] obj = "Branches" ->
         <<"B", "r", "a", "n", "c", "h", "e", "s">>
    [] obj = "BrazilBeverageIndexers" ->
         <<"B", "r", "a", "z", "i", "l", "B", "e", "v", "e", "r", "a", "g", "e", "I", "n", "d", "e", "x", "e", "r", "s">>
    [] obj = "BrazilFuelIndexers" ->
         <<"B", "r", "a", "z", "i", "l", "F", "u", "e", "l", "I", "n", "d", "e", "x", "e", "r", "s">>
    [] obj = "BrazilMultiIndexers" ->
         <<"B", "r", "a", "z", "i", "l", "M", "u", "l", "t", "i", "I", "n", "d", "e", "x", "e", "r", "s">>
    [] obj = "BrazilNumericIndexers" ->
         <<"B", "r", "a", "z", "i", "l", "N", "u", "m", "e", "r", "i", "c", "I", "n", "d", "e", "x", "e", "r", "s">>
    [] obj = "BrazilStringIndexers" ->
         <<"B", "r", "a", "z", "i", "l", "S", "t", "r", "i", "n", "g", "I", "n", "d", "e", "x", "e", "r", "s">>
    [] obj = "BudgetDistributions" ->
         <<"B", "u", "d", "g", "e", "t", "D", "i", "s", "t", "r", "i", "b", "u", "t", "i", "o", "n", "s">>
    [] obj = "Budgets" ->
         <<"B", "u", "d", "g", "e", "t", "s">>
    [] obj = "BudgetScenarios" ->
         <<"B", "u", "d", "g", "e", "t", "S", "c", "e", "n", "a", "r", "i", "o", "s">>
    [] obj = "BusinessPartnerGroups" ->
         <<"B", "u", "s", "i", "n", "e", "s", "s", "P", "a", "r", "t", "n", "e", "r", "G", "r", "o", "u", "p", "s">>
    [] obj = "BusinessPartnerProperties" ->
         <<"B", "u", "s", "i", "n", "e", "s", "s", "P", "a", "r", "t", "n", "e", "r", "P", "r", "o", "p", "e", "r", "t", "i", "e", "s">>
    [] obj = "BusinessPartners" ->
         <<"B", "u", "s", "i", "n", "e", "s", "s", "P", "a", "r", "t", "n", "e", "r", "s">>
    [] obj = "BusinessPlaces" ->
         <<"B", "u", "s", "i", "n", "e", "s", "s", "P", "l", "a", "c", "e", "s">>
    [] obj = "CampaignResponseType" ->
         <<"C", "a", "m", "p", "a", "i", "g", "n", "R", "e", "s", "p", "o", "n", "s", "e", "T", "y", "p", "e">>
    [] obj = "Campaigns" ->
         <<"C", "a", "m", "p", "a", "i", "g", "n", "s">>
    [] obj = "CashDiscounts" ->
         <<"C", "a", "s", "h", "D", "i", "s", "c", "o", "u", "n", "t", "s">>
    [] obj = "CashFlowLineItems" ->
         <<"C", "a", "s", "h", "F", "l", "o", "w", "L", "i", "n", "e", "I", "t", "e", "m", "s">>
    [] obj = "CertificateSeries" ->
         <<"C", "e", "r", "t", "i", "f", "i", "c", "a", "t", "e", "S", "e", "r", "i", "e", "s">>
    [] obj = "ChartOfAccounts" ->
         <<"C", "h", "a", "r", "t", "O", "f", "A", "c", "c", "o", "u", "n", "t", "s">>
    [] obj = "ChecksforPayment" ->
         <<"C", "h", "e", "c", "k", "s", "f", "o", "r", "P", "a", "y", "m", "e", "n", "t">>
    [] obj = "ChooseFromList" ->
         <<"C", "h", "o", "o", "s", "e", "F", "r", "o", "m", "L", "i", "s", "t">>
    [] obj = "ClosingDateProcedure" ->
         <<"C", "l", "o", "s", "i", "n", "g", "D", "a", "t", "e", "P", "r", "o", "c", "e", "d", "u", "r", "e">>
    [] obj = "Cockpits" ->
         <<"C", "o", "c", "k", "p", "i", "t", "s">>
    [] obj = "CommissionGroups" ->
         <<"C", "o", "m", "m", "i", "s", "s", "i", "o", "n", "G", "r", "o", "u", "p", "s">>
    [] obj = "Contacts" ->
         <<"C", "o", "n", "t", "a", "c", "t", "s">>
    [] obj = "ContractTemplates" ->
         <<"C", "o", "n", "t", "r", "a", "c", "t", "T", "e", "m", "p", "l", "a", "t", "e", "s">>
    [] obj = "CorrectionInvoice" ->
         <<"C", "o", "r", "r", "e", "c", "t", "i", "o", "n", "I", "n", "v", "o", "i", "c", "e">>
    [] obj = "CorrectionInvoiceReversal" ->
         <<"C", "o", "r", "r", "e", "c", "t", "i", "o", "n", "I", "n", "v", "o", "i", "c", "e", "R", "e", "v", "e", "r", "s", "a", "l">>
    [] obj = "CorrectionPurchaseInvoice" ->
         <<"C", "o", "r", "r", "e", "c", "t", "i", "o", "n", "P", "u", "r", "c", "h", "a", "s", "e", "I", "n", "v", "o", "i", "c", "e">>
    [] obj = "CorrectionPurchaseInvoiceReversal" ->
         <<"C", "o", "r", "r", "e", "c", "t", "i", "o", "n", "P", "u", "r", "c", "h", "a", "s", "e", "I", "n", "v", "o", "i", "c", "e", "R", "e", "v", "e", "r", "s", "a", "l">>
    [] obj = "CostCenterTypes" ->
         <<"C", "o", "s", "t", "C", "e", "n", "t", "e", "r", "T", "y", "p", "e", "s">>
    [] obj = "CostElements" ->
         <<"C", "o", "s", "t", "E", "l", "e", "m", "e", "n", "t", "s">>
    [] obj = "Countries" ->
         <<"C", "o", "u", "n", "t", "r", "i", "e", "s">>
    [] obj = "CreditCardPayments" ->
         <<"C", "r", "e", "d", "i", "t", "C", "a", "r", "d", "P", "a", "y", "m", "e", "n", "t", "s">>
    [] obj = "CreditCards" ->
         <<"C", "r", "e", "d", "i", "t", "C", "a", "r", "d", "s">>
    [] obj = "CreditNotes" ->
         <<"C", "r", "e", "d", "i", "t", "N", "o", "t", "e", "s">>
    [] obj = "CreditPaymentMethods" ->
         <<"C", "r", "e", "d", "i", "t", "P", "a", "y", "m", "e", "n", "t", "M", "e", "t", "h", "o", "d", "s">>
    [] obj = "Currencies" ->
         <<"C", "u", "r", "r", "e", "n", "c", "i", "e", "s">>
    [] obj = "CustomerEquipmentCards" ->
         <<"C", "u", "s", "t", "o", "m", "e", "r", "E", "q", "u", "i", "p", "m", "e", "n", "t", "C", "a", "r", "d", "s">>
    [] obj = "CustomsDeclaration" ->
         <<"C", "u", "s", "t", "o", "m", "s", "D", "e", "c", "l", "a", "r", "a", "t", "i", "o", "n">>
    [] obj = "CustomsGroups" ->
         <<"C", "u", "s", "t", "o", "m", "s", "G", "r", "o", "u", "p", "s">>
    [] obj = "CycleCountDeterminations" ->
         <<"C", "y", "c", "l", "e", "C", "o", "u", "n", "t", "D", "e", "t", "e", "r", "m", "i", "n", "a", "t", "i", "o", "n", "s">>
    [] obj = "DeductionTaxGroups" ->
         <<"D", "e", "d", "u", "c", "t", "i", "o", "n", "T", "a", "x", "G", "r", "o", "u", "p", "s">>
    [] obj = "DeductionTaxHierarchies" ->
         <<"D", "e", "d", "u", "c", "t", "i", "o", "n", "T", "a", "x", "H", "i", "e", "r", "a", "r", "c", "h", "i", "e", "s">>
    [] obj = "DeductionTaxSubGroups" ->
         <<"D", "e", "d", "u", "c", "t", "i", "o", "n", "T", "a", "x", "S", "u", "b", "G", "r", "o", "u", "p", "s">>
    [] obj = "DeliveryNotes" ->
         <<"D", "e", "l", "i", "v", "e", "r", "y", "N", "o", "t", "e", "s">>
    [] obj = "Departments" ->
         <<"D", "e", "p", "a", "r", "t", "m", "e", "n", "t", "s">>
    [] obj = "Deposits" ->
         <<"D", "e", "p", "o", "s", "i", "t", "s">>
    [] obj = "DepreciationAreas" ->
         <<"D", "e", "p", "r", "e", "c", "i", "a", "t", "i", "o", "n", "A", "r", "e", "a", "s">>
    [] obj = "DepreciationTypePools" ->
         <<"D", "e", "p", "r", "e", "c", "i", "a", "t", "i", "o", "n", "T", "y", "p", "e", "P", "o", "o", "l", "s">>
    [] obj = "DepreciationTypes" ->
         <<"D", "e", "p", "r", "e", "c", "i", "a", "t", "i", "o", "n", "T", "y", "p", "e", "s">>
    [] obj = "DeterminationCriterias" ->
         <<"D", "e", "t", "e", "r", "m", "i", "n", "a", "t", "i", "o", "n", "C", "r", "i", "t", "e", "r", "i", "a", "s">>
    [] obj = "Dimensions" ->
         <<"D", "i", "m", "e", "n", "s", "i", "o", "n", "s">>
    [] obj = "DistributionRules" ->
         <<"D", "i", "s", "t", "r", "i", "b", "u", "t", "i", "o", "n", "R", "u", "l", "e", "s">>
    [] obj = "DNFCodeSetup" ->
         <<"D", "N", "F", "C", "o", "d", "e", "S", "e", "t", "u", "p">>
    [] obj = "DownPayments" ->
         <<"D", "o", "w", "n", "P", "a", "y", "m", "e", "n", "t", "s">>
    [] obj = "Drafts" ->
         <<"D", "r", "a", "f", "t", "s">>
    [] obj = "DunningLetters" ->
         <<"D", "u", "n", "n", "i", "n", "g", "L", "e", "t", "t", "e", "r", "s">>
    [] obj = "DunningTerms" ->
         <<"D", "u", "n", "n", "i", "n", "g", "T", "e", "r", "m", "s">>
    [] obj = "DynamicSystemStrings" ->
         <<"D", "y", "n", "a", "m", "i", "c", "S", "y", "s", "t", "e", "m", "S", "t", "r", "i", "n", "g", "s">>
    [] obj = "ElectronicFileFormats" ->
         <<"E", "l", "e", "c", "t", "r", "o", "n", "i", "c", "F", "i", "l", "e", "F", "o", "r", "m", "a", "t", "s">>
    [] obj = "EmailGroups" ->
         <<"E", "m", "a", "i", "l", "G", "r", "o", "u", "p", "s">>
    [] obj = "EmployeeIDType" ->
         <<"E", "m", "p", "l", "o", "y", "e", "e", "I", "D", "T", "y", "p", "e">>
    [] obj = "EmployeePosition" ->
         <<"E", "m", "p", "l", "o", "y", "e", "e", "P", "o", "s", "i", "t", "i", "o", "n">>
    [] obj = "EmployeeRolesSetup" ->
         <<"E", "m", "p", "l", "o", "y", "e", "e", "R", "o", "l", "e", "s", "S", "e", "t", "u", "p">>
    [] obj = "EmployeesInfo" ->
         <<"E", "m", "p", "l", "o", "y", "e", "e", "s", "I", "n", "f", "o">>
    [] obj = "EmployeeStatus" ->
         <<"E", "m", "p", "l", "o", "y", "e", "e", "S", "t", "a", "t", "u", "s">>
    [] obj = "EmployeeTransfers" ->
         <<"E", "m", "p", "l", "o", "y", "e", "e", "T", "r", "a", "n", "s", "f", "e", "r", "s">>
    [] obj = "EmploymentCategorys" ->
         <<"E", "m", "p", "l", "o", "y", "m", "e", "n", "t", "C", "a", "t", "e", "g", "o", "r", "y", "s">>
    [] obj = "EnhancedDiscountGroups" ->
         <<"E", "n", "h", "a", "n", "c", "e", "d", "D", "i", "s", "c", "o", "u", "n", "t", "G", "r", "o", "u", "p", "s">>
    [] obj = "ExceptionalEvents" ->
         <<"E", "x", "c", "e", "p", "t", "i", "o", "n", "a", "l", "E", "v", "e", "n", "t", "s">>
    [] obj = "ExtendedTranslations" ->
         <<"E", "x", "t", "e", "n", "d", "e", "d", "T", "r", "a", "n", "s", "l", "a", "t", "i", "o", "n", "s">>
    [] obj = "FAAccountDeterminations" ->
         <<"F", "A", "A", "c", "c", "o", "u", "n", "t", "D", "e", "t", "e", "r", "m", "i", "n", "a", "t", "i", "o", "n", "s">>
    [] obj = "FactoringIndicators" ->
         <<"F", "a", "c", "t", "o", "r", "i", "n", "g", "I", "n", "d", "i", "c", "a", "t", "o", "r", "s">>
    [] obj = "FinancialYears" ->
         <<"F", "i", "n", "a", "n", "c", "i", "a", "l", "Y", "e", "a", "r", "s">>
    [] obj = "FiscalPrinter" ->
         <<"F", "i", "s", "c", "a", "l", "P", "r", "i", "n", "t", "e", "r">>
    [] obj = "FormattedSearches" ->
         <<"F", "o", "r", "m", "a", "t", "t", "e", "d", "S", "e", "a", "r", "c", "h", "e", "s">>
    [] obj = "FormPreferences" ->
         <<"F", "o", "r", "m", "P", "r", "e", "f", "e", "r", "e", "n", "c", "e", "s">>
    [] obj = "Forms1099" ->
         <<"F", "o", "r", "m", "s", "1", "0", "9", "9">>
    [] obj = "GLAccountAdvancedRules" ->
         <<"G", "L", "A", "c", "c", "o", "u", "n", "t", "A", "d", "v", "a", "n", "c", "e", "d", "R", "u", "l", "e", "s">>
    [] obj = "GoodsReturnRequest" ->
         <<"G", "o", "o", "d", "s", "R", "e", "t", "u", "r", "n", "R", "e", "q", "u", "e", "s", "t">>
    [] obj = "GovPayCodes" ->
         <<"G", "o", "v", "P", "a", "y", "C", "o", "d", "e", "s">>
    [] obj = "Holidays" ->
         <<"H", "o", "l", "i", "d", "a", "y", "s">>
    [] obj = "HouseBankAccounts" ->
         <<"H", "o", "u", "s", "e", "B", "a", "n", "k", "A", "c", "c", "o", "u", "n", "t", "s">>
    [] obj = "IncomingPayments" ->
         <<"I", "n", "c", "o", "m", "i", "n", "g", "P", "a", "y", "m", "e", "n", "t", "s">>
    [] obj = "Industries" ->
         <<"I", "n", "d", "u", "s", "t", "r", "i", "e", "s">>
    [] obj = "IntegrationPackagesConfigure" ->
         <<"I", "n", "t", "e", "g", "r", "a", "t", "i", "o", "n", "P", "a", "c", "k", "a", "g", "e", "s", "C", "o", "n", "f", "i", "g", "u", "r", "e">>
    [] obj = "InternalReconciliations" ->
         <<"I", "n", "t", "e", "r", "n", "a", "l", "R", "e", "c", "o", "n", "c", "i", "l", "i", "a", "t", "i", "o", "n", "s">>
    [] obj = "IntrastatConfiguration" ->
         <<"I", "n", "t", "r", "a", "s", "t", "a", "t", "C", "o", "n", "f", "i", "g", "u", "r", "a", "t", "i", "o", "n">>
    [] obj = "InventoryCountings" ->
         <<"I", "n", "v", "e", "n", "t", "o", "r", "y", "C", "o", "u", "n", "t", "i", "n", "g", "s">>
    [] obj = "InventoryCycles" ->
         <<"I", "n", "v", "e", "n", "t", "o", "r", "y", "C", "y", "c", "l", "e", "s">>
    [] obj = "InventoryGenEntries" ->
         <<"I", "n", "v", "e", "n", "t", "o", "r", "y", "G", "e", "n", "E", "n", "t", "r", "i", "e", "s">>
    [] obj = "InventoryGenExits" ->
         <<"I", "n", "v", "e", "n", "t", "o", "r", "y", "G", "e", "n", "E", "x", "i", "t", "s">>
    [] obj = "InventoryOpeningBalances" ->
         <<"I", "n", "v", "e", "n", "t", "o", "r", "y", "O", "p", "e", "n", "i", "n", "g", "B", "a", "l", "a", "n", "c", "e", "s">>
    [] obj = "InventoryPostings" ->
         <<"I", "n", "v", "e", "n", "t", "o", "r", "y", "P", "o", "s", "t", "i", "n", "g", "s">>
    [] obj = "InventoryTransferRequests" ->
         <<"I", "n", "v", "e", "n", "t", "o", "r", "y", "T", "r", "a", "n", "s", "f", "e", "r", "R", "e", "q", "u", "e", "s", "t", "s">>
    [] obj = "Invoices" ->
         <<"I", "n", "v", "o", "i", "c", "e", "s">>
    [] obj = "ItemGroups" ->
         <<"I", "t", "e", "m", "G", "r", "o", "u", "p", "s">>
    [] obj = "ItemImages" ->
         <<"I", "t", "e", "m", "I", "m", "a", "g", "e", "s">>
    [] obj = "ItemProperties" ->
         <<"I", "t", "e", "m", "P", "r", "o", "p", "e", "r", "t", "i", "e", "s">>
    [] obj = "Items" ->
         <<"I", "t", "e", "m", "s">>
    [] obj = "JournalEntries" ->
         <<"J", "o", "u", "r", "n", "a", "l", "E", "n", "t", "r", "i", "e", "s">>
    [] obj = "JournalEntryDocumentTypes" ->
         <<"J", "o", "u", "r", "n", "a", "l", "E", "n", "t", "r", "y", "D", "o", "c", "u", "m", "e", "n", "t", "T", "y", "p", "e", "s">>
    [] obj = "KnowledgeBaseSolutions" ->
         <<"K", "n", "o", "w", "l", "e", "d", "g", "e", "B", "a", "s", "e", "S", "o", "l", "u", "t", "i", "o", "n", "s">>
    [] obj = "KPIs" ->
         <<"K", "P", "I", "s">>
    [] obj = "LandedCosts" ->
         <<"L", "a", "n", "d", "e", "d", "C", "o", "s", "t", "s">>
    [] obj = "LandedCostsCodes" ->
         <<"L", "a", "n", "d", "e", "d", "C", "o", "s", "t", "s", "C", "o", "d", "e", "s">>
    [] obj = "LegalData" ->
         <<"L", "e", "g", "a", "l", "D", "a", "t", "a">>
    [] obj = "LengthMeasures" ->
         <<"L", "e", "n", "g", "t", "h", "M", "e", "a", "s", "u", "r", "e", "s">>
    [] obj = "LocalEra" ->
         <<"L", "o", "c", "a", "l", "E", "r", "a">>
    [] obj = "Manufacturers" ->
         <<"M", "a", "n", "u", "f", "a", "c", "t", "u", "r", "e", "r", "s">>
    [] obj = "MaterialGroups" ->
         <<"M", "a", "t", "e", "r", "i", "a", "l", "G", "r", "o", "u", "p", "s">>
    [] obj = "MaterialRevaluation" ->
         <<"M", "a", "t", "e", "r", "i", "a", "l", "R", "e", "v", "a", "l", "u", "a", "t", "i", "o", "n">>
    [] obj = "Messages" ->
         <<"M", "e", "s", "s", "a", "g", "e", "s">>
    [] obj = "MobileAddOnSetting" ->
         <<"M", "o", "b", "i", "l", "e", "A", "d", "d", "O", "n", "S", "e", "t", "t", "i", "n", "g">>
    [] obj = "MultiLanguageTranslations" ->
         <<"M", "u", "l", "t", "i", "L", "a", "n", "g", "u", "a", "g", "e", "T", "r", "a", "n", "s", "l", "a", "t", "i", "o", "n", "s">>
    [] obj = "NatureOfAssessees" ->
         <<"N", "a", "t", "u", "r", "e", "O", "f", "A", "s", "s", "e", "s", "s", "e", "e", "s">>
    [] obj = "NCMCodesSetup" ->
         <<"N", "C", "M", "C", "o", "d", "e", "s", "S", "e", "t", "u", "p">>
    [] obj = "NFModels" ->
         <<"N", "F", "M", "o", "d", "e", "l", "s">>
    [] obj = "NFTaxCategories" ->
         <<"N", "F", "T", "a", "x", "C", "a", "t", "e", "g", "o", "r", "i", "e", "s">>
    [] obj = "NotaFiscalCFOP" ->
         <<"N", "o", "t", "a", "F", "i", "s", "c", "a", "l", "C", "F", "O", "P">>
    [] obj = "NotaFiscalCST" ->
         <<"N", "o", "t", "a", "F", "i", "s", "c", "a", "l", "C", "S", "T">>
    [] obj = "NotaFiscalUsage" ->
         <<"N", "o", "t", "a", "F", "i", "s", "c", "a", "l", "U", "s", "a", "g", "e">>
    [] obj = "OccurrenceCodes" ->
         <<"O", "c", "c", "u", "r", "r", "e", "n", "c", "e", "C", "o", "d", "e", "s">>
    [] obj = "Orders" ->
         <<"O", "r", "d", "e", "r", "s">>
    [] obj = "PackagesTypes" ->
         <<"P", "a", "c", "k", "a", "g", "e", "s", "T", "y", "p", "e", "s">>
    [] obj = "PartnersSetups" ->
         <<"P", "a", "r", "t", "n", "e", "r", "s", "S", "e", "t", "u", "p", "s">>
    [] obj = "PaymentBlocks" ->
         <<"P", "a", "y", "m", "e", "n", "t", "B", "l", "o", "c", "k", "s">>
    [] obj = "PaymentDrafts" ->
         <<"P", "a", "y", "m", "e", "n", "t", "D", "r", "a", "f", "t", "s">>
    [] obj = "PaymentReasonCodes" ->
         <<"P", "a", "y", "m", "e", "n", "t", "R", "e", "a", "s", "o", "n", "C", "o", "d", "e", "s">>
    [] obj = "PaymentRunExport" ->
         <<"P", "a", "y", "m", "e", "n", "t", "R", "u", "n", "E", "x", "p", "o", "r", "t">>
    [] obj = "PaymentTermsTypes" ->
         <<"P", "a", "y", "m", "e", "n", "t", "T", "e", "r", "m", "s", "T", "y", "p", "e", "s">>
    [] obj = "PickLists" ->
         <<"P", "i", "c", "k", "L", "i", "s", "t", "s">>
    [] obj = "POSDailySummary" ->
         <<"P", "O", "S", "D", "a", "i", "l", "y", "S", "u", "m", "m", "a", "r", "y">>
    [] obj = "PredefinedTexts" ->
         <<"P", "r", "e", "d", "e", "f", "i", "n", "e", "d", "T", "e", "x", "t", "s">>
    [] obj = "PriceLists" ->
         <<"P", "r", "i", "c", "e", "L", "i", "s", "t", "s">>
    [] obj = "ProductionOrders" ->
         <<"P", "r", "o", "d", "u", "c", "t", "i", "o", "n", "O", "r", "d", "e", "r", "s">>
    [] obj = "ProductTrees" ->
         <<"P", "r", "o", "d", "u", "c", "t", "T", "r", "e", "e", "s">>
    [] obj = "ProfitCenters" ->
         <<"P", "r", "o", "f", "i", "t", "C", "e", "n", "t", "e", "r", "s">>
    [] obj = "ProjectManagements" ->
         <<"P", "r", "o", "j", "e", "c", "t", "M", "a", "n", "a", "g", "e", "m", "e", "n", "t", "s">>
    [] obj = "ProjectManagementTimeSheet" ->
         <<"P", "r", "o", "j", "e", "c", "t", "M", "a", "n", "a", "g", "e", "m", "e", "n", "t", "T", "i", "m", "e", "S", "h", "e", "e", "t">>
    [] obj = "Projects" ->
         <<"P", "r", "o", "j", "e", "c", "t", "s">>
    [] obj = "PurchaseCreditNotes" ->
         <<"P", "u", "r", "c", "h", "a", "s", "e", "C", "r", "e", "d", "i", "t", "N", "o", "t", "e", "s">>
    [] obj = "PurchaseDeliveryNotes" ->
         <<"P", "u", "r", "c", "h", "a", "s", "e", "D", "e", "l", "i", "v", "e", "r", "y", "N", "o", "t", "e", "s">>
    [] obj = "PurchaseDownPayments" ->
         <<"P", "u", "r", "c", "h", "a", "s", "e", "D", "o", "w", "n", "P", "a", "y", "m", "e", "n", "t", "s">>
    [] obj = "PurchaseInvoices" ->
         <<"P", "u", "r", "c", "h", "a", "s", "e", "I", "n", "v", "o", "i", "c", "e", "s">>
    [] obj = "PurchaseOrders" ->
         <<"P", "u", "r", "c", "h", "a", "s", "e", "O", "r", "d", "e", "r", "s">>
    [] obj = "PurchaseQuotations" ->
         <<"P", "u", "r", "c", "h", "a", "s", "e", "Q", "u", "o", "t", "a", "t", "i", "o", "n", "s">>
    [] obj = "PurchaseRequests" ->
         <<"P", "u", "r", "c", "h", "a", "s", "e", "R", "e", "q", "u", "e", "s", "t", "s">>
    [] obj = "PurchaseReturns" ->
         <<"P", "u", "r", "c", "h", "a", "s", "e", "R", "e", "t", "u", "r", "n", "s">>
    [] obj = "PurchaseTaxInvoices" ->
         <<"P", "u", "r", "c", "h", "a", "s", "e", "T", "a", "x", "I", "n", "v", "o", "i", "c", "e", "s">>
    [] obj = "QueryAuthGroups" ->
         <<"Q", "u", "e", "r", "y", "A", "u", "t", "h", "G", "r", "o", "u", "p", "s">>
    [] obj = "QueryCategories" ->
         <<"Q", "u", "e", "r", "y", "C", "a", "t", "e", "g", "o", "r", "i", "e", "s">>
    [] obj = "Queue" ->
         <<"Q", "u", "e", "u", "e">>
    [] obj = "Quotations" ->
         <<"Q", "u", "o", "t", "a", "t", "i", "o", "n", "s">>
    [] obj = "Relationships" ->
         <<"R", "e", "l", "a", "t", "i", "o", "n", "s", "h", "i", "p", "s">>
    [] obj = "ReportFilter" ->
         <<"R", "e", "p", "o", "r", "t", "F", "i", "l", "t", "e", "r">>
    [] obj = "ReportTypes" ->
         <<"R", "e", "p", "o", "r", "t", "T", "y", "p", "e", "s">>
    [] obj = "ResourceCapacities" ->
         <<"R", "e", "s", "o", "u", "r", "c", "e", "C", "a", "p", "a", "c", "i", "t", "i", "e", "s">>
    [] obj = "ResourceGroups" ->
         <<"R", "e", "s", "o", "u", "r", "c", "e", "G", "r", "o", "u", "p", "s">>
    [] obj = "ResourceProperties" ->
         <<"R", "e", "s", "o", "u", "r", "c", "e", "P", "r", "o", "p", "e", "r", "t", "i", "e", "s">>
    [] obj = "Resources" ->
         <<"R", "e", "s", "o", "u", "r", "c", "e", "s">>
    [] obj = "RetornoCodes" ->
         <<"R", "e", "t", "o", "r", "n", "o", "C", "o", "d", "e", "s">>
    [] obj = "ReturnRequest" ->
         <<"R", "e", "t", "u", "r", "n", "R", "e", "q", "u", "e", "s", "t">>
    [] obj = "Returns" ->
         <<"R", "e", "t", "u", "r", "n", "s">>
    [] obj = "RouteStages" ->
         <<"R", "o", "u", "t", "e", "S", "t", "a", "g", "e", "s">>
    [] obj = "SalesForecast" ->
         <<"S", "a", "l", "e", "s", "F", "o", "r", "e", "c", "a", "s", "t">>
    [] obj = "SalesOpportunities" ->
         <<"S", "a", "l", "e", "s", "O", "p", "p", "o", "r", "t", "u", "n", "i", "t", "i", "e", "s">>
    [] obj = "SalesOpportunityCompetitorsSetup" ->
         <<"S", "a", "l", "e", "s", "O", "p", "p", "o", "r", "t", "u", "n", "i", "t", "y", "C", "o", "m", "p", "e", "t", "i", "t", "o", "r", "s", "S", "e", "t", "u", "p">>
    [] obj = "SalesOpportunityInterestsSetup" ->
         <<"S", "a", "l", "e", "s", "O", "p", "p", "o", "r", "t", "u", "n", "i", "t", "y", "I", "n", "t", "e", "r", "e", "s", "t", "s", "S", "e", "t", "u", "p">>
    [] obj = "SalesOpportunityReasonsSetup" ->
         <<"S", "a", "l", "e", "s", "O", "p", "p", "o", "r", "t", "u", "n", "i", "t", "y", "R", "e", "a", "s", "o", "n", "s", "S", "e", "t", "u", "p">>
    [] obj = "SalesOpportunitySourcesSetup" ->
         <<"S", "a", "l", "e", "s", "O", "p", "p", "o", "r", "t", "u", "n", "i", "t", "y", "S", "o", "u", "r", "c", "e", "s", "S", "e", "t", "u", "p">>
    [] obj = "SalesPersons" ->
         <<"S", "a", "l", "e", "s", "P", "e", "r", "s", "o", "n", "s">>
    [] obj = "SalesStages" ->
         <<"S", "a", "l", "e", "s", "S", "t", "a", "g", "e", "s">>
    [] obj = "SalesTaxAuthorities" ->
         <<"S", "a", "l", "e", "s", "T", "a", "x", "A", "u", "t", "h", "o", "r", "i", "t", "i", "e", "s">>
    [] obj = "SalesTaxAuthoritiesTypes" ->
         <<"S", "a", "l", "e", "s", "T", "a", "x", "A", "u", "t", "h", "o", "r", "i", "t", "i", "e", "s", "T", "y", "p", "e", "s">>
    [] obj = "SalesTaxCodes" ->
         <<"S", "a", "l", "e", "s", "T", "a", "x", "C", "o", "d", "e", "s">>
    [] obj = "SalesTaxInvoices" ->
         <<"S", "a", "l", "e", "s", "T", "a", "x", "I", "n", "v", "o", "i", "c", "e", "s">>
    [] obj = "Sections" ->
         <<"S", "e", "c", "t", "i", "o", "n", "s">>
    [] obj = "SerialNumberDetails" ->
         <<"S", "e", "r", "i", "a", "l", "N", "u", "m", "b", "e", "r", "D", "e", "t", "a", "i", "l", "s">>
    [] obj = "ServiceCallOrigins" ->
         <<"S", "e", "r", "v", "i", "c", "e", "C", "a", "l", "l", "O", "r", "i", "g", "i", "n", "s">>
    [] obj = "ServiceCallProblemSubTypes" ->
         <<"S", "e", "r", "v", "i", "c", "e", "C", "a", "l", "l", "P", "r", "o", "b", "l", "e", "m", "S", "u", "b", "T", "y", "p", "e", "s">>
    [] obj = "ServiceCallProblemTypes" ->
         <<"S", "e", "r", "v", "i", "c", "e", "C", "a", "l", "l", "P", "r", "o", "b", "l", "e", "m", "T", "y", "p", "e", "s">>
    [] obj = "ServiceCalls" ->
         <<"S", "e", "r", "v", "i", "c", "e", "C", "a", "l", "l", "s">>
    [] obj = "ServiceCallSolutionStatus" ->
         <<"S", "e", "r", "v", "i", "c", "e", "C", "a", "l", "l", "S", "o", "l", "u", "t", "i", "o", "n", "S", "t", "a", "t", "u", "s">>
    [] obj = "ServiceCallStatus" ->
         <<"S", "e", "r", "v", "i", "c", "e", "C", "a", "l", "l", "S", "t", "a", "t", "u", "s">>
    [] obj = "ServiceCallTypes" ->
         <<"S", "e", "r", "v", "i", "c", "e", "C", "a", "l", "l", "T", "y", "p", "e", "s">>
    [] obj = "ServiceContracts" ->
         <<"S", "e", "r", "v", "i", "c", "e", "C", "o", "n", "t", "r", "a", "c", "t", "s">>
    [] obj = "ServiceGroups" ->
         <<"S", "e", "r", "v", "i", "c", "e", "G", "r", "o", "u", "p", "s">>
    [] obj = "ShippingTypes" ->
         <<"S", "h", "i", "p", "p", "i", "n", "g", "T", "y", "p", "e", "s">>
    [] obj = "SpecialPrices" ->
         <<"S", "p", "e", "c", "i", "a", "l", "P", "r", "i", "c", "e", "s">>
    [] obj = "States" ->
         <<"S", "t", "a", "t", "e", "s">>
    [] obj = "StockTakings" ->
         <<"S", "t", "o", "c", "k", "T", "a", "k", "i", "n", "g", "s">>
    [] obj = "StockTransferDrafts" ->
         <<"S", "t", "o", "c", "k", "T", "r", "a", "n", "s", "f", "e", "r", "D", "r", "a", "f", "t", "s">>
    [] obj = "StockTransfers" ->
         <<"S", "t", "o", "c", "k", "T", "r", "a", "n", "s", "f", "e", "r", "s">>
    [] obj = "TargetGroups" ->
         <<"T", "a", "r", "g", "e", "t", "G", "r", "o", "u", "p", "s">>
    [] obj = "TaxCodeDeterminations" ->
         <<"T", "a", "x", "C", "o", "d", "e", "D", "e", "t", "e", "r", "m", "i", "n", "a", "t", "i", "o", "n", "s">>
    [] obj = "TaxCodeDeterminationsTCD" ->
         <<"T", "a", "x", "C", "o", "d", "e", "D", "e", "t", "e", "r", "m", "i", "n", "a", "t", "i", "o", "n", "s", "T", "C", "D">>
    [] obj = "TaxInvoiceReport" ->
         <<"T", "a", "x", "I", "n", "v", "o", "i", "c", "e", "R", "e", "p", "o", "r", "t">>
    [] obj = "TaxWebSites" ->
         <<"T", "a", "x", "W", "e", "b", "S", "i", "t", "e", "s">>
    [] obj = "Teams" ->
         <<"T", "e", "a", "m", "s">>
    [] obj = "TerminationReason" ->
         <<"T", "e", "r", "m", "i", "n", "a", "t", "i", "o", "n", "R", "e", "a", "s", "o", "n">>
    [] obj = "Territories" ->
         <<"T", "e", "r", "r", "i", "t", "o", "r", "i", "e", "s">>
    [] obj = "TrackingNotes" ->
         <<"T", "r", "a", "c", "k", "i", "n", "g", "N", "o", "t", "e", "s">>
    [] obj = "TransactionCodes" ->
         <<"T", "r", "a", "n", "s", "a", "c", "t", "i", "o", "n", "C", "o", "d", "e", "s">>
    [] obj = "TransportationDocuments" ->
         <<"T", "r", "a", "n", "s", "p", "o", "r", "t", "a", "t", "i", "o", "n", "D", "o", "c", "u", "m", "e", "n", "t", "s">>
    [] obj = "TSRExceptionalEvents" ->
         <<"T", "S", "R", "E", "x", "c", "e", "p", "t", "i", "o", "n", "a", "l", "E", "v", "e", "n", "t", "s">>
    [] obj = "UnitOfMeasurementGroups" ->
         <<"U", "n", "i", "t", "O", "f", "M", "e", "a", "s", "u", "r", "e", "m", "e", "n", "t", "G", "r", "o", "u", "p", "s">>
    [] obj = "UnitOfMeasurements" ->
         <<"U", "n", "i", "t", "O", "f", "M", "e", "a", "s", "u", "r", "e", "m", "e", "n", "t", "s">>
    [] obj = "UserDefaultGroups" ->
         <<"U", "s", "e", "r", "D", "e", "f", "a", "u", "l", "t", "G", "r", "o", "u", "p", "s">>
    [] obj = "UserFieldsMD" ->
         <<"U", "s", "e", "r", "F", "i", "e", "l", "d", "s", "M", "D">>
    [] obj = "UserKeysMD" ->
         <<"U", "s", "e", "r", "K", "e", "y", "s", "M", "D">>
    [] obj = "UserLanguages" ->
         <<"U", "s", "e", "r", "L", "a", "n", "g", "u", "a", "g", "e", "s">>
    [] obj = "UserObjectsMD" ->
         <<"U", "s", "e", "r", "O", "b", "j", "e", "c", "t", "s", "M", "D">>
    [] obj = "UserPermissionTree" ->
         <<"U", "s", "e", "r", "P", "e", "r", "m", "i", "s", "s", "i", "o", "n", "T", "r", "e", "e">>
    [] obj = "UserQueries" ->
         <<"U", "s", "e", "r", "Q", "u", "e", "r", "i", "e", "s">>
    [] obj = "Users" ->
         <<"U", "s", "e", "r", "s">>
    [] obj = "UserTablesMD" ->
         <<"U", "s", "e", "r", "T", "a", "b", "l", "e", "s", "M", "D">>
    [] obj = "ValueMapping" ->
         <<"V", "a", "l", "u", "e", "M", "a", "p", "p", "i", "n", "g">>
    [] obj = "ValueMappingCommunication" ->
         <<"V", "a", "l", "u", "e", "M", "a", "p", "p", "i", "n", "g", "C", "o", "m", "m", "u", "n", "i", "c", "a", "t", "i", "o", "n">>
    [] obj = "VatGroups" ->
         <<"V", "a", "t", "G", "r", "o", "u", "p", "s">>
    [] obj = "VendorPayments" ->
         <<"V", "e", "n", "d", "o", "r", "P", "a", "y", "m", "e", "n", "t", "s">>
    [] obj = "WarehouseLocations" ->
         <<"W", "a", "r", "e", "h", "o", "u", "s", "e", "L", "o", "c", "a", "t", "i", "o", "n", "s">>
    [] obj = "Warehouses" ->
         <<"W", "a", "r", "e", "h", "o", "u", "s", "e", "s">>
    [] obj = "WarehouseSublevelCodes" ->
         <<"W", "a", "r", "e", "h", "o", "u", "s", "e", "S", "u", "b", "l", "e", "v", "e", "l", "C", "o", "d", "e", "s">>
    [] obj = "WebClientBookmarkTiles" ->
         <<"W", "e", "b", "C", "l", "i", "e", "n", "t", "B", "o", "o", "k", "m", "a", "r", "k", "T", "i", "l", "e", "s">>
    [] obj = "WebClientDashboards" ->
         <<"W", "e", "b", "C", "l", "i", "e", "n", "t", "D", "a", "s", "h", "b", "o", "a", "r", "d", "s">>
    [] obj = "WebClientFormSettings" ->
         <<"W", "e", "b", "C", "l", "i", "e", "n", "t", "F", "o", "r", "m", "S", "e", "t", "t", "i", "n", "g", "s">>
    [] obj = "WebClientLaunchpads" ->
         <<"W", "e", "b", "C", "l", "i", "e", "n", "t", "L", "a", "u", "n", "c", "h", "p", "a", "d", "s">>
    [] obj = "WebClientListviewFilters" ->
         <<"W", "e", "b", "C", "l", "i", "e", "n", "t", "L", "i", "s", "t", "v", "i", "e", "w", "F", "i", "l", "t", "e", "r", "s">>
    [] obj = "WebClientNotifications" ->
         <<"W", "e", "b", "C", "l", "i", "e", "n", "t", "N", "o", "t", "i", "f", "i", "c", "a", "t", "i", "o", "n", "s">>
    [] obj = "WebClientPreferences" ->
         <<"W", "e", "b", "C", "l", "i", "e", "n", "t", "P", "r", "e", "f", "e", "r", "e", "n", "c", "e", "s">>
    [] obj = "WebClientRecentActivities" ->
         <<"W", "e", "b", "C", "l", "i", "e", "n", "t", "R", "e", "c", "e", "n", "t", "A", "c", "t", "i", "v", "i", "t", "i", "e", "s">>
    [] obj = "WebClientVariantGroups" ->
         <<"W", "e", "b", "C", "l", "i", "e", "n", "t", "V", "a", "r", "i", "a", "n", "t", "G", "r", "o", "u", "p", "s">>
    [] obj = "WebClientVariants" ->
         <<"W", "e", "b", "C", "l", "i", "e", "n", "t", "V", "a", "r", "i", "a", "n", "t", "s">>
    [] obj = "WeightMeasures" ->
         <<"W", "e", "i", "g", "h", "t", "M", "e", "a", "s", "u", "r", "e", "s">>
    [] obj = "WithholdingTaxCodes" ->
         <<"W", "i", "t", "h", "h", "o", "l", "d", "i", "n", "g", "T", "a", "x", "C", "o", "d", "e", "s">>
    [] obj = "WitholdingTaxDefinition" ->
         <<"W", "i", "t", "h", "o", "l", "d", "i", "n", "g", "T", "a", "x", "D", "e", "f", "i", "n", "i", "t", "i", "o", "n">>
    [] obj = "WizardPaymentMethods" ->
         <<"W", "i", "z", "a", "r", "d", "P", "a", "y", "m", "e", "n", "t", "M", "e", "t", "h", "o", "d", "s">>
    [] obj = "WTaxTypeCodes" ->
         <<"W", "T", "a", "x", "T", "y", "p", "e", "C", "o", "d", "e", "s">>

\* toLowerCase of a character, and of the chart types an answer names
LowerToken(t) ==
  CASE t = "A" -> "a"
    [] t = "B" -> "b"
    [] t = "C" -> "c"
    [] t = "D" -> "d"
    [] t = "E" -> "e"
    [] t = "F" -> "f"
    [] t = "G" -> "g"
    [] t = "H" -> "h"
    [] t = "I" -> "i"
    [] t = "J" -> "j"
    [] t = "K" -> "k"
    [] t = "L" -> "l"
    [] t = "M" -> "m"
    [] t = "N" -> "n"
    [] t = "O" -> "o"
    [] t = "P" -> "p"
    [] t = "Q" -> "q"
    [] t = "R" -> "r"
    [] t = "S" -> "s"
    [] t = "T" -> "t"
    [] t = "U" -> "u"
    [] t = "V" -> "v"
    [] t = "W" -> "w"
    [] t = "X" -> "x"
    [] t = "Y" -> "y"
    [] t = "Z" -> "z"
    [] t = "Pie" -> "pie"
    [] t = "Line" -> "line"
    [] OTHER -> t

\* s.toLowerCase()
ToLowerCase(s) == [i \in 1..Len(s) |-> LowerToken(s[i])]

\* obj.toLowerCase() for every obj of SAP_B1_OBJECTS
LowerNames ==
  [i \in 1..Len(SAP_B1_OBJECTS) |-> ToLowerCase(Spelling(SAP_B1_OBJECTS[i]))]

\* lowerQuery.split(' ')[0]
FirstWord(s) ==
  IF \E i \in 1..Len(s) : s[i] = " "
  THEN SubSeq(s, 1, (CHOOSE i \in 1..Len(s) :
                       s[i] = " " /\ \A j \in 1..(i - 1) : s[j] # " ") - 1)
  ELSE s

\* SAP_B1_OBJECTS.includes(name)
IsListed(name) == \E i \in 1..Len(SAP_B1_OBJECTS) : SAP_B1_OBJECTS[i] = name

\* The predicate of find for the name at index i:
\* lowerQuery.includes(obj.toLowerCase()) ||
\* obj.toLowerCase().includes(lowerQuery.split(' ')[0])
CloseMatch(i, lowerQuery, firstWord) ==
  \/ Includes(lowerQuery, LowerNames[i])
  \/ Includes(LowerNames[i], firstWord)

\* SAP_B1_OBJECTS.find(obj => ...): the index of the first match, 0 for none
FindMatch(lowerQuery) ==
  LET firstWord == FirstWord(lowerQuery)
      hits == {i \in 1..Len(SAP_B1_OBJECTS) : CloseMatch(i, lowerQuery, firstWord)}
  IN IF hits = {} THEN 0 ELSE CHOOSE i \in hits : \A j \in hits : i <= j

PendingOrdersFilter == <<FilterClause("DocumentStatus eq 'bost_Open'")>>

\* Default fallbacks
DefaultObject(res, lowerQuery) ==
  IF Includes(lowerQuery, <<"o", "r", "d", "e", "r">>) /\ Includes(lowerQuery, <<"p", "e", "n", "d", "i", "n", "g">>)
  THEN [objectName |-> "Orders", filterParams |-> PendingOrdersFilter]
  ELSE IF Includes(lowerQuery, <<"i", "t", "e", "m">>)
  THEN [res EXCEPT !.objectName = "Items"]
  ELSE IF Includes(lowerQuery, <<"c", "u", "s", "t", "o", "m", "e", "r">>)
          \/ Includes(lowerQuery,
                      <<"b", "u", "s", "i", "n", "e", "s", "s", " ", "p", "a", "r", "t", "n", "e", "r">>)
  THEN [res EXCEPT !.objectName = "BusinessPartners"]
  ELSE IF Includes(lowerQuery, <<"i", "n", "v", "o", "i", "c", "e">>)
          \/ Includes(lowerQuery, <<"s", "a", "l", "e", "s">>)
  THEN [res EXCEPT !.objectName = "Invoices"]
  ELSE [res EXCEPT !.objectName = "Orders"]

\* Mutant: the name of the answer is passed through
ValidateObjectPassThrough(res, processedQuery) == res

\* if (!SAP_B1_OBJECTS.includes(result.objectName)) { ... }
ValidateObject(res, processedQuery) ==
  IF IsListed(res.objectName) THEN res
  ELSE LET lowerQuery == ToLowerCase(processedQuery)
           matched == FindMatch(lowerQuery)
       IN IF matched # 0
          THEN [res EXCEPT !.objectName = SAP_B1_OBJECTS[matched]]
          ELSE DefaultObject(res, lowerQuery)

\* The query texts of requests
QueryInputs ==
  {\* 'Show open orders'
   <<"S", "h", "o", "w", " ", "o", "p", "e", "n", " ", "o", "r", "d", "e", "r", "s">>,
   \* 'list Invoices'
   <<"l", "i", "s", "t", " ", "I", "n", "v", "o", "i", "c", "e", "s">>,
   \* 'Pending order value'
   <<"P", "e", "n", "d", "i", "n", "g", " ", "o", "r", "d", "e", "r", " ", "v", "a", "l", "u", "e">>,
   \* 'item stock'
   <<"i", "t", "e", "m", " ", "s", "t", "o", "c", "k">>,
   \* 'stock per item'
   <<"s", "t", "o", "c", "k", " ", "p", "e", "r", " ", "i", "t", "e", "m">>,
   \* 'top customer'
   <<"t", "o", "p", " ", "c", "u", "s", "t", "o", "m", "e", "r">>,
   \* 'sales report'
   <<"s", "a", "l", "e", "s", " ", "r", "e", "p", "o", "r", "t">>,
   \* 'what now'
   <<"w", "h", "a", "t", " ", "n", "o", "w">>,
   \* ' what'
   <<" ", "w", "h", "a", "t">>,
   \* 'every item'
   <<"e", "v", "e", "r", "y", " ", "i", "t", "e", "m">>,
   \* 'every invoice'
   <<"e", "v", "e", "r", "y", " ", "i", "n", "v", "o", "i", "c", "e">>}

\* The object names and filters OpenAI answers with
RawObjects == {"Orders", "Items", "SalesOrders", "ORDR", "undefined"}
RawFilters == {<<>>, <<FilterClause("f")>>, <<TopClause(0)>>}

\* POST: the natural-language step with the validation of the answer, the
\* cancellation check and the first executeSAPB1Query call
NLValidated(queries, objects, filters) ==
  /\ pc = "nl_wait"
  /\ \/ /\ response' = ErrorResponse(500, <<"Failed to generate query: ", "OpenAI API error">>)
        /\ pc' = "done"
        /\ UNCHANGED <<queryResult, fetch, fetchCalls, nl>>
     \/ \E q \in queries, obj \in objects, fp \in filters :
          /\ nl' = [query |-> q, objectName |-> obj, filterParams |-> fp]
          /\ queryResult' = ValidateObject([objectName |-> obj, filterParams |-> fp], q)
          /\ IF aborted
             THEN /\ response' = ErrorResponse(499, CancelMsg)
                  /\ pc' = "done"
                  /\ UNCHANGED <<fetch, fetchCalls>>
             ELSE /\ fetch' = NewFetch("first", sessionId, queryResult'.objectName,
                                       queryResult'.filterParams,
                                       ~HasTop(queryResult'.filterParams),
                                       TopMatch(queryResult'.filterParams))
                  /\ fetchCalls' = fetchCalls + 1
                  /\ pc' = "fetch_start"
                  /\ UNCHANGED response
  /\ UNCHANGED <<sessionCache, now, ticks, nextSession, puts, calls, swept,
                 requests, aborted, body, sessionId, newSessionId,
                 login, thrown, result, loginPosts, obs>>

\* ------------------------------------------------------------------------
\* executeSAPB1Query
\* ------------------------------------------------------------------------
fetchFrame == <<cacheVars, requests, aborted, body, sessionId, newSessionId,
                queryResult, login, response, loginPosts, fetchCalls, obs>>

\* route.ts: queryParams += '&$top=10000'
DefaultTop == 10000

\* The single request issued when neither fetchAll nor a limit asks for pages.
\* route.ts adds $top=10000 to a filter without $top.
SingleRequest(f) ==
  IF f.route = "top50"
  THEN [skip |-> Null,
        top |-> IF HasTop(f.filterParams) THEN Null ELSE DefaultTop,
        params |-> f.filterParams,
        sessionId |-> f.sessionId, objectName |-> f.objectName]
  ELSE [skip |-> Null, top |-> Null, params |-> f.filterParams,
        sessionId |-> f.sessionId, objectName |-> f.objectName]

\* if (fetchAll || requestedLimit) ... else: the single request is sent
FetchStart ==
  /\ pc = "fetch_start"
  /\ IF UsesPagination(fetch)
     THEN /\ pc' = "fetch_top"
          /\ UNCHANGED fetch
     ELSE /\ fetch' = [fetch EXCEPT !.issued = Append(@, SingleRequest(fetch))]
          /\ pc' = "single_wait"
  /\ UNCHANGED <<fetchFrame, thrown, result>>

\* const finalResult = { value: allResults, '@odata.count': allResults.length }
FinalResult(f) == [shape |-> "value", rows |-> f.allResults]

\* The top of the while (hasMore) loop up to the await of the page request
FetchTop(maxPages) ==
  /\ pc = "fetch_top"
  /\ IF ~fetch.hasMore
     THEN /\ result' = FinalResult(fetch)
          /\ pc' = "fetch_returned"
          /\ UNCHANGED <<fetch, thrown>>
     ELSE IF AbortObserved(aborted /\ fetch.signal)
     THEN /\ thrown' = CancelMsg
          /\ pc' = "fetch_threw"
          /\ UNCHANGED <<fetch, result>>
     ELSE IF LimitReached(fetch.requestedLimit, RowCount(fetch.allResults))
     THEN /\ result' = FinalResult(fetch)
          /\ fetch' = [fetch EXCEPT !.hasMore = FALSE]
          /\ pc' = "fetch_returned"
          /\ UNCHANGED thrown
     ELSE /\ Len(fetch.issued) < maxPages
          /\ fetch' = [fetch EXCEPT !.issued = Append(@, PageRequest(fetch))]
          /\ pc' = "page_wait"
          /\ UNCHANGED <<thrown, result>>
  /\ UNCHANGED fetchFrame

\* The page request answered: makeSAPB1Request, the cancellation check after
\* the request, and the rest of the loop body
PageResponse(answers) ==
  /\ pc = "page_wait"
  /\ \E a \in answers :
       IF a.kind = "error"
       THEN /\ thrown' = a.msg
            /\ pc' = "fetch_threw"
            /\ UNCHANGED fetch
       ELSE IF AbortObserved(aborted /\ fetch.signal)
       THEN /\ thrown' = CancelMsg
            /\ pc' = "fetch_threw"
            /\ UNCHANGED fetch
       ELSE IF a.kind = "nullbody"
       THEN /\ thrown' = NullBodyMsg
            /\ pc' = "fetch_threw"
            /\ UNCHANGED fetch
       ELSE /\ fetch' = IF a.kind = "rows"
                        THEN ProcessPage(fetch, a.n, a.hint, a.low)
                        ELSE ProcessNoArray(fetch)
            /\ pc' = "fetch_top"
            /\ UNCHANGED thrown
  /\ UNCHANGED <<fetchFrame, result>>

\* The value the single-request branch returns
SingleResult(a) ==
  IF a.kind \in {"rows", "array"}
  THEN [shape |-> "array", rows |-> PushRows(<<>>, 1, a.n, a.low)]
  ELSE [shape |-> a.kind, rows |-> <<>>]

\* route.ts returns the body of the single request as it is
SingleResultTop50(a) ==
  IF a.kind = "rows"
  THEN [shape |-> "value", rows |-> PushRows(<<>>, 1, a.n, a.low)]
  ELSE IF a.kind = "array"
  THEN [shape |-> "array", rows |-> PushRows(<<>>, 1, a.n, a.low)]
  ELSE [shape |-> a.kind, rows |-> <<>>]

\* The single request answered
SingleResponse(answers) ==
  /\ pc = "single_wait"
  /\ \E a \in answers :
       IF a.kind = "error"
       THEN /\ thrown' = a.msg
            /\ pc' = "fetch_threw"
            /\ UNCHANGED <<fetch, result>>
       ELSE /\ result' = IF fetch.route = "top50" THEN SingleResultTop50(a)
                          ELSE SingleResult(a)
            /\ fetch' = [fetch EXCEPT !.received = Append(@, a.n)]
            /\ pc' = "fetch_returned"
            /\ UNCHANGED thrown
  /\ UNCHANGED fetchFrame

\* ------------------------------------------------------------------------
\* POST: after executeSAPB1Query returned or threw
\* ------------------------------------------------------------------------
\* The try block after the first call checks the signal once more; the
\* retries do not
FetchReturned ==
  /\ pc = "fetch_returned"
  /\ IF fetch.phase = "first" /\ aborted
     THEN /\ response' = ErrorResponse(499, CancelMsg)
          /\ pc' = "done"
     ELSE /\ pc' = "post_process"
          /\ UNCHANGED response
  /\ UNCHANGED <<cacheVars, requests, aborted, body, sessionId, newSessionId,
                 queryResult, login, fetch, thrown, result, loginPosts,
                 fetchCalls, obs>>

\* queryResult.objectName === 'Items' && queryResult.filterParams &&
\* (errorMessage.includes('invalid') || errorMessage.includes('Property'))
IsItemsRetry(q, msg) ==
  /\ q.objectName = "Items"
  /\ q.filterParams # <<>>
  /\ IsInvalidPropertyError(msg)

\* const retryParams = topMatch ? `$top=${topMatch[1]}` : ''
RetryParams(fp) == IF TopMatch(fp) = Null THEN <<>> ELSE <<TopClause(TopMatch(fp))>>

\* catch (queryError) of the first call: the forced login of the auth
\* retry, the reduced filter of the Items retry, or the failure
CatchQueryError ==
  /\ obs' = [obs EXCEPT !.firstThrown = IF fetch.phase = "first" THEN thrown ELSE @,
                        !.forcedLogins = IF IsAuthError(thrown) THEN @ + 1 ELSE @]
  /\ IF IsAuthError(thrown)
     THEN /\ sessionCache' = removeSession(sessionCache, body.settings)
          /\ puts' = MapDelete(puts, Identity(body.settings))
          /\ login' = [forceNew |-> TRUE, result |-> NoSession]
          /\ pc' = "login_start"
          /\ UNCHANGED <<response, fetch, fetchCalls>>
     ELSE IF IsItemsRetry(queryResult, thrown)
     THEN /\ fetch' = NewFetch("itemsRetry", sessionId, queryResult.objectName,
                               RetryParams(queryResult.filterParams),
                               TopMatch(queryResult.filterParams) = Null,
                               TopMatch(queryResult.filterParams))
          /\ fetchCalls' = fetchCalls + 1
          /\ pc' = "fetch_start"
          /\ UNCHANGED <<response, sessionCache, puts, login>>
     ELSE /\ response' = ErrorResponse(500, <<"Failed to execute query: ">> \o thrown)
          /\ pc' = "done"
          /\ UNCHANGED <<sessionCache, puts, login, fetch, fetchCalls>>

\* Mutant: a failed retry is handled like the failure of the first call
CatchRetryErrorRetries == CatchQueryError

\* catch (retryError) of the auth retry and of the Items retry
CatchRetryError ==
  /\ response' = ErrorResponse(500,
        (IF fetch.phase = "authRetry" THEN <<"Session expired and retry failed: ">>
         ELSE <<"Failed to execute query: ">>) \o thrown)
  /\ pc' = "done"
  /\ UNCHANGED <<sessionCache, puts, login, fetch, fetchCalls, obs>>

\* Mutant: a fetch that threw hands the rows collected so far to POST
FetchThrewPartial ==
  /\ pc = "fetch_threw"
  /\ result' = FinalResult(fetch)
  /\ pc' = "fetch_returned"
  /\ UNCHANGED <<cacheVars, requests, aborted, body, sessionId, newSessionId,
                 queryResult, login, fetch, thrown, response, loginPosts,
                 fetchCalls, obs>>

\* executeSAPB1Query threw: the catch around the call that was running
FetchThrew ==
  /\ pc = "fetch_threw"
  /\ IF fetch.phase = "first" THEN CatchQueryError ELSE CatchRetryError
  /\ UNCHANGED <<now, ticks, nextSession, requests, aborted, body, sessionId,
                 newSessionId, queryResult, thrown, result, loginPosts, calls,
                 swept, nl>>

\* ------------------------------------------------------------------------
\* route.ts: the POST handler that limits the first fetch to the top 50
\* records.  Validation, login, post-processing and the response are those
\* of the handler above; the three places that call executeSAPB1Query differ.
\* ------------------------------------------------------------------------
Top50 == 50

\* limitedFilterParams: '$top=50' for an empty filter, '&$top=50' appended to
\* a filter without '$top=', else .replace(/\$top=\d+/, '$top=50')
LimitTop50(fp) ==
  IF fp = <<>> THEN <<TopClause(Top50)>>
  ELSE IF ~HasTop(fp) THEN Append(fp, TopClause(Top50))
  ELSE IF FirstTopIndex(fp) = 0 THEN fp
  ELSE [fp EXCEPT ![FirstTopIndex(fp)] = TopClause(Top50)]

\* route.ts: the natural-language step, the cancellation check and the first
\* call, executeSAPB1Query(sessionId, server, objectName, limitedFilterParams,
\* false, signal)
NLResponseTop50(objects, filters) ==
  /\ pc = "nl_wait"
  /\ \/ /\ response' = ErrorResponse(500, <<"Failed to generate query: ", "OpenAI API error">>)
        /\ pc' = "done"
        /\ UNCHANGED <<queryResult, fetch, fetchCalls>>
     \/ \E obj \in objects, fp \in filters :
          /\ queryResult' = [objectName |-> obj, filterParams |-> fp]
          /\ IF aborted
             THEN /\ response' = ErrorResponse(499, CancelMsg)
                  /\ pc' = "done"
                  /\ UNCHANGED <<fetch, fetchCalls>>
             ELSE /\ fetch' = NewFetchTop50("first", sessionId, obj, LimitTop50(fp),
                                            FALSE, TRUE)
                  /\ fetchCalls' = fetchCalls + 1
                  /\ pc' = "fetch_start"
                  /\ UNCHANGED response
  /\ UNCHANGED <<cacheVars, requests, aborted, body, sessionId, newSessionId,
                 login, thrown, result, loginPosts, obs>>

\* route.ts after a loginToSAPB1 call returned; the auth retry is
\* executeSAPB1Query(newSessionId, server, objectName, filterParams, true, signal)
LoginReturnedTop50 ==
  /\ pc = "login_returned"
  /\ IF ~login.forceNew
     THEN /\ sessionId' = login.result
          /\ IF login.result = NoSession
             THEN /\ response' = ErrorResponse(401,
                       <<"Failed to authenticate with SAP B1. Please check your credentials.">>)
                  /\ pc' = "done"
             ELSE /\ pc' = "nl_wait"
                  /\ UNCHANGED response
          /\ UNCHANGED <<newSessionId, fetch, fetchCalls>>
     ELSE /\ newSessionId' = login.result
          /\ IF login.result # NoSession
             THEN /\ fetch' = NewFetchTop50("authRetry", login.result,
                                            queryResult.objectName,
                                            queryResult.filterParams, TRUE, TRUE)
                  /\ fetchCalls' = fetchCalls + 1
                  /\ pc' = "fetch_start"
                  /\ UNCHANGED response
             ELSE /\ response' = ErrorResponse(401,
                       <<"Session expired and failed to create new session. Please check your credentials.">>)
                  /\ pc' = "done"
                  /\ UNCHANGED <<fetch, fetchCalls>>
          /\ UNCHANGED sessionId
  /\ UNCHANGED <<cacheVars, requests, aborted, body, queryResult, login, thrown,
                 result, loginPosts, obs>>

\* route.ts catch (queryError) of the first call; the Items retry is
\* executeSAPB1Query(sessionId, server, objectName, '$top=50'), with fetchAll
\* at its default true and without the signal
CatchQueryErrorTop50 ==
  /\ obs' = [obs EXCEPT !.firstThrown = IF fetch.phase = "first" THEN thrown ELSE @,
                        !.forcedLogins = IF IsAuthError(thrown) THEN @ + 1 ELSE @]
  /\ IF IsAuthError(thrown)
     THEN /\ sessionCache' = removeSession(sessionCache, body.settings)
          /\ puts' = MapDelete(puts, Identity(body.settings))
          /\ login' = [forceNew |-> TRUE, result |-> NoSession]
          /\ pc' = "login_start"
          /\ UNCHANGED <<response, fetch, fetchCalls>>
     ELSE IF IsItemsRetry(queryResult, thrown)
     THEN /\ fetch' = NewFetchTop50("itemsRetry", sessionId, queryResult.objectName,
                                    <<TopClause(Top50)>>, TRUE, FALSE)
          /\ fetchCalls' = fetchCalls + 1
          /\ pc' = "fetch_start"
          /\ UNCHANGED <<response, sessionCache, puts, login>>
     ELSE /\ response' = ErrorResponse(500, <<"Failed to execute query: ">> \o thrown)
          /\ pc' = "done"
          /\ UNCHANGED <<sessionCache, puts, login, fetch, fetchCalls>>

\* route.ts: executeSAPB1Query threw
FetchThrewTop50 ==
  /\ pc = "fetch_threw"
  /\ IF fetch.phase = "first" THEN CatchQueryErrorTop50 ELSE CatchRetryError
  /\ UNCHANGED <<now, ticks, nextSession, requests, aborted, body, sessionId,
                 newSessionId, queryResult, thrown, result, loginPosts, calls,
                 swept, nl>>

\* ------------------------------------------------------------------------
\* POST: client-side filtering, chart data, chart configuration
\* ------------------------------------------------------------------------
\* result.value.filter(item => currentStock < minInventory)
LowStockFilter(rows) == SelectSeq(rows, LAMBDA c : c.low)

\* The Items below-minimum special case applies to a result with a value array
PostFilter(q, lowStockQuery, res) ==
  IF q.objectName = "Items" /\ lowStockQuery /\ res.shape = "value"
  THEN [res EXCEPT !.rows = LowStockFilter(res.rows)]
  ELSE res

\* chartData: result.value, or result itself when an array, or [result]
ChartData(res) ==
  IF res.shape \in {"value", "array"} THEN res.rows
  ELSE <<[page |-> 1, n |-> 1, low |-> FALSE]>>

SuccessResponse(rows, chart) ==
  [status |-> 200, error |-> <<>>, rows |-> rows, chart |-> chart,
   recommended |-> <<chart>>]

PostProcess ==
  /\ pc = "post_process"
  /\ IF result.shape = "nullbody"
     THEN /\ response' = ErrorResponse(500, NullBodyMsg)
          /\ pc' = "done"
          /\ UNCHANGED result
     ELSE /\ result' = PostFilter(queryResult, body.lowStockQuery, result)
          /\ IF RowCount(ChartData(result')) = 0
             THEN /\ response' = SuccessResponse(ChartData(result'), "bar")
                  /\ pc' = "done"
             ELSE /\ pc' = "chart_wait"
                  /\ UNCHANGED response
  /\ UNCHANGED <<cacheVars, requests, aborted, body, sessionId, newSessionId,
                 queryResult, login, fetch, thrown, loginPosts, fetchCalls, obs>>

\* What the chart step sees of the data and the query: whether the first
\* record has date, numeric and categorical fields, how many values the
\* first categorical field takes in the sample, whether the query names a
\* time-related term
FieldInputs ==
  {[date |-> TRUE, numeric |-> TRUE, categorical |-> TRUE, unique |-> 3,
    timeTerms |-> FALSE],
   [date |-> FALSE, numeric |-> TRUE, categorical |-> TRUE, unique |-> 9,
    timeTerms |-> TRUE],
   [date |-> FALSE, numeric |-> FALSE, categorical |-> FALSE, unique |-> 0,
    timeTerms |-> FALSE]}

PieMinCategories == 2
PieMaxCategories == 8

\* analyzeDataForChartTypes for non-empty data
analyzeDataForChartTypes(f) ==
  LET line == IF f.date /\ f.numeric
              THEN (IF f.timeTerms THEN <<"line">>
                    ELSE IF f.date THEN <<"line">> ELSE <<>>)
              ELSE <<>>
      bar == IF f.numeric THEN <<"bar">>
             ELSE IF f.categorical THEN <<"bar">> ELSE <<>>
      pie == IF /\ f.numeric /\ f.categorical
                /\ f.unique >= PieMinCategories /\ f.unique <= PieMaxCategories
             THEN <<"pie">> ELSE <<>>
      recommendations == line \o bar \o pie
  IN IF recommendations = <<>> THEN <<"bar">> ELSE recommendations

validChartTypes == {"pie", "bar", "line"}

\* How the OpenAI call of analyzeChartConfigurationWithAI can end
ChartFailures == {"neterr", "non2xx", "nokey", "nojson"}
ChartAnswers ==
  {[kind |-> "ok", best |-> b, types |-> t] :
      b \in {"line", "Pie", "scatter"}, t \in {<<>>, <<"bar", "line">>}}
    \cup {[kind |-> k, best |-> "", types |-> <<>>] : k \in ChartFailures}

\* The one table shape and the two ends of the OpenAI call used where the
\* chart is not what is examined
FieldInputsSession ==
  {[date |-> FALSE, numeric |-> TRUE, categorical |-> TRUE, unique |-> 9,
    timeTerms |-> TRUE]}
ChartAnswersSession ==
  {[kind |-> "ok", best |-> "line", types |-> <<"bar", "line">>],
   [kind |-> "neterr", best |-> "", types |-> <<>>]}

RecommendedLimit == 3

\* analyzeChartConfigurationWithAI for non-empty data: the validated
\* configuration, or the value its catch block returns
analyzeChartConfigurationWithAI(a) ==
  IF a.kind # "ok"
  THEN [bestChartType |-> "bar", recommendedTypes |-> <<"bar">>]
  ELSE LET best == IF LowerToken(a.best) \in validChartTypes
                   THEN LowerToken(a.best) ELSE "bar"
           listed == SelectSeq(ToLowerCase(a.types),
                               LAMBDA t : t \in validChartTypes)
           withBest == IF \E i \in 1..Len(listed) : listed[i] = best
                       THEN listed ELSE <<best>> \o listed
           final == SubSeq(withBest, 1, Min(RecommendedLimit, Len(withBest)))
       IN [bestChartType |-> best,
           recommendedTypes |-> IF Len(final) > 0 THEN final ELSE <<best>>]

\* The success response with the chart configuration
ChartSuccess(rows, config) ==
  [status |-> 200, error |-> <<>>, rows |-> rows,
   chart |-> config.bestChartType, recommended |-> config.recommendedTypes]

\* POST after analyzeChartConfigurationWithAI returned.  The function
\* catches its own errors, so the catch in POST with the local analysis
\* never runs.
ChartResponse(fieldInputs, chartAnswers) ==
  /\ pc = "chart_wait"
  /\ \E f \in fieldInputs, a \in chartAnswers :
       /\ obs' = [obs EXCEPT !.fields = f, !.chartAnswer = a.kind]
       /\ response' = ChartSuccess(ChartData(result),
                                   analyzeChartConfigurationWithAI(a))
  /\ pc' = "done"
  /\ UNCHANGED <<cacheVars, requests, aborted, body, sessionId, newSessionId,
                 queryResult, login, fetch, thrown, result, loginPosts,
                 fetchCalls>>

\* route.ts: how the OpenAI call of recommendChartTypes can end
ChartAnswersTop50 ==
  {[kind |-> "ok", types |-> t] :
      t \in {<<>>, <<"bar", "pie">>, <<"scatter">>,
              <<"Line", "scatter", "bar", "pie", "bar">>}}
    \cup {[kind |-> k, types |-> <<>>] : k \in {"neterr", "non2xx", "nojson"}}

\* route.ts recommendChartTypes for non-empty data: the valid types of the
\* answer in lower case, at most three, or ['bar']
recommendChartTypes(a) ==
  IF a.kind # "ok" THEN <<"bar">>
  ELSE LET validTypes == SelectSeq(ToLowerCase(a.types),
                                   LAMBDA t : t \in validChartTypes)
           finalTypes == SubSeq(validTypes, 1, Min(RecommendedLimit, Len(validTypes)))
       IN IF Len(finalTypes) = 0 THEN <<"bar">> ELSE finalTypes

\* route.ts: the success response carries recommendedChartTypes and no
\* best chart type
SuccessResponseTop50(rows, types) ==
  [status |-> 200, error |-> <<>>, rows |-> rows, chart |-> "",
   recommended |-> types]

\* route.ts POST after the fetch: the low-stock filter, chartData, and
\* recommendChartTypes, which answers ['bar'] for empty data without a call
PostProcessTop50 ==
  /\ pc = "post_process"
  /\ IF result.shape = "nullbody"
     THEN /\ response' = ErrorResponse(500, NullBodyMsg)
          /\ pc' = "done"
          /\ UNCHANGED result
     ELSE /\ result' = PostFilter(queryResult, body.lowStockQuery, result)
          /\ IF RowCount(ChartData(result')) = 0
             THEN /\ response' = SuccessResponseTop50(ChartData(result'), <<"bar">>)
                  /\ pc' = "done"
             ELSE /\ pc' = "chart_wait"
                  /\ UNCHANGED response
  /\ UNCHANGED <<cacheVars, requests, aborted, body, sessionId, newSessionId,
                 queryResult, login, fetch, thrown, loginPosts, fetchCalls, obs>>

\* route.ts: the OpenAI call of recommendChartTypes ended
ChartResponseTop50(chartAnswers) ==
  /\ pc = "chart_wait"
  /\ \E a \in chartAnswers :
       /\ obs' = [obs EXCEPT !.chartAnswer = a.kind]
       /\ response' = SuccessResponseTop50(ChartData(result), recommendChartTypes(a))
  /\ pc' = "done"
  /\ UNCHANGED <<cacheVars, requests, aborted, body, sessionId, newSessionId,
                 queryResult, login, fetch, thrown, result, loginPosts,
                 fetchCalls>>

\* ------------------------------------------------------------------------
\* The environment
\* ------------------------------------------------------------------------
\* The client aborts the request: the signal is set while the handler awaits
Cancel ==
  /\ pc \in AwaitPcs
  /\ ~aborted
  /\ aborted' = TRUE
  /\ obs' = [obs EXCEPT !.cancelPc = pc, !.cancelFetch = fetchCalls,
                         !.cancelPages = Len(fetch.issued)]
  /\ UNCHANGED <<cacheVars, requests, pc, body, sessionId, newSessionId,
                 queryResult, login, fetch, thrown, result, response,
                 loginPosts, fetchCalls>>

TickSteps == {1, SESSION_EXPIRATION_TIME - 1}

\* Time passes
Tick ==
  /\ pc \in AwaitPcs \cup {"idle", "done"}
  /\ ticks < MaxTicks
  /\ \E d \in TickSteps : now' = now + d
  /\ ticks' = ticks + 1
  /\ UNCHANGED <<sessionCache, nextSession, requests, pc, aborted, body,
                 sessionId, newSessionId, queryResult, login, fetch, thrown,
                 result, response, loginPosts, fetchCalls, obs, puts, calls,
                 swept, nl>>

\* setInterval(cleanupExpiredSessions, 5 * 60 * 1000)
Sweep ==
  /\ pc \in AwaitPcs \cup {"idle", "done"}
  /\ sessionCache' = cleanupExpiredSessions(sessionCache, now)
  /\ sessionCache' # sessionCache
  /\ swept' = swept \cup ((DOMAIN sessionCache) \ (DOMAIN sessionCache'))
  /\ UNCHANGED <<now, ticks, nextSession, requests, pc, aborted, body,
                 sessionId, newSessionId, queryResult, login, fetch, thrown,
                 result, response, loginPosts, fetchCalls, obs, puts, calls,
                 nl>>

\* ------------------------------------------------------------------------
\* What the upstream can answer to the request in flight
\* ------------------------------------------------------------------------
\* $top of the request in flight (Null for the single request)
TopInFlight == fetch.issued[Len(fetch.issued)].top

\* The upstream may return exactly the number of rows asked for
WithTop(ns) == ns \cup (IF TopInFlight > 0 THEN {TopInFlight} ELSE {})

\* Rows of an Items low-stock query may be below minimum or not
LowChoices ==
  IF body.lowStockQuery /\ fetch.objectName = "Items" THEN BOOLEAN ELSE {FALSE}

AnswersPost ==
  {RowsAnswer(n, h, low) :
      n \in WithTop({0, 2}), h \in {NoHint, HintAt(4)}, low \in LowChoices}
    \cup ErrorAnswers \cup OtherShapeAnswers

AnswersWide ==
  {RowsAnswer(n, h, FALSE) :
      n \in WithTop({0, 37, 100, 50000}),
      h \in {NoHint, HintAt(237), [NoHint EXCEPT !.odCount = 150000], HintCount(NaN),
             [atCount |-> Null, odCount |-> 74, count |-> 37]}}
    \cup {ErrorAnswer(HttpErrorMsg("500", "Internal Server Error", <<>>))}
    \cup OtherShapeAnswers

AnswersSession ==
  {RowsAnswer(n, NoHint, FALSE) : n \in WithTop({0})}
    \cup {ErrorAnswer(HttpErrorMsg("401", "Unauthorized", <<>>)),
          ErrorAnswer(HttpErrorMsg("500", "Internal Server Error", <<>>))}

\* ------------------------------------------------------------------------
\* Spec: one POST request from its body to its response
\* ------------------------------------------------------------------------
Next ==
  \/ (requests = 0 /\ PostStart(OneSettings, BOOLEAN, BOOLEAN))
  \/ LoginStart
  \/ LoginResponse(LoginAnswers)
  \/ LoginReturned
  \/ NLResponse(ObjectInputs, FilterInputs)
  \/ FetchStart
  \/ FetchTop(MaxPagesPost)
  \/ PageResponse(AnswersPost)
  \/ SingleResponse(AnswersPost)
  \/ FetchReturned
  \/ FetchThrew
  \/ PostProcess
  \/ ChartResponse(FieldInputs, ChartAnswers)
  \/ Cancel

Spec == Init /\ [][Next]_vars

\* ------------------------------------------------------------------------
\* SpecTop50: one POST request to the route.ts handler
\* ------------------------------------------------------------------------
\* route.ts makeSAPB1Request has no timeout; a network error rejects
ErrorAnswersTop50 ==
  (ErrorAnswers \ {ErrorAnswer(<<"Request timeout: SAP B1 query took too long">>)})
    \cup {ErrorAnswer(<<"connect ECONNREFUSED">>)}

\* The $top of the route.ts request in flight: the one of its filter, else
\* the one executeSAPB1Query added
EffectiveTop ==
  IF TopMatch(fetch.issued[Len(fetch.issued)].params) # Null
  THEN TopMatch(fetch.issued[Len(fetch.issued)].params)
  ELSE TopInFlight

\* The upstream returns no more rows than $top allows
AnswersTop50 ==
  {RowsAnswer(n, h, low) :
      n \in {k \in {0, 2, Top50} : EffectiveTop = Null \/ k <= EffectiveTop},
      h \in {NoHint, HintAt(2 * Top50)}, low \in LowChoices}
    \cup ErrorAnswersTop50 \cup OtherShapeAnswers

NextTop50 ==
  \/ (requests = 0 /\ PostStart(OneSettings, BOOLEAN, BOOLEAN))
  \/ LoginStart
  \/ LoginResponse(LoginAnswers)
  \/ LoginReturnedTop50
  \/ NLResponseTop50(ObjectInputs, FilterInputs)
  \/ FetchStart
  \/ FetchTop(MaxPagesPost)
  \/ PageResponse(AnswersTop50)
  \/ SingleResponse(AnswersTop50)
  \/ FetchReturned
  \/ FetchThrewTop50
  \/ PostProcessTop50
  \/ ChartResponseTop50(ChartAnswersTop50)
  \/ Cancel

SpecTop50 == Init /\ [][NextTop50]_vars

\* ------------------------------------------------------------------------
\* SpecNL: one POST request whose natural-language step answers with any
\* object name
\* ------------------------------------------------------------------------
AnswersNL ==
  {RowsAnswer(n, NoHint, FALSE) : n \in {0, 2}}
    \cup {ErrorAnswer(HttpErrorMsg("401", "Unauthorized", <<>>)),
          ErrorAnswer(HttpErrorMsg("400", "Bad Request", <<"Property", " 'Foo' of 'Item' is ", "invalid">>))}

NextNL ==
  \/ (requests = 0 /\ PostStart(OneSettings, {FALSE}, BOOLEAN))
  \/ LoginStart
  \/ LoginResponse(LoginAnswers)
  \/ LoginReturned
  \/ NLValidated(QueryInputs, RawObjects, RawFilters)
  \/ FetchStart
  \/ FetchTop(MaxPagesPost)
  \/ PageResponse(AnswersNL)
  \/ SingleResponse(AnswersNL)
  \/ FetchReturned
  \/ FetchThrew
  \/ PostProcess
  \/ ChartResponse(FieldInputsSession, ChartAnswersSession)

SpecNL == Init /\ [][NextNL]_vars

\* ------------------------------------------------------------------------
\* SpecFetch: one executeSAPB1Query call, as POST makes it after the login
\* and the natural-language step, against an upstream that answers freely
\* ------------------------------------------------------------------------
InitFetch ==
  /\ now = 0
  /\ ticks = 0
  /\ nextSession = 2
  /\ requests = 1
  /\ pc = "fetch_start"
  /\ aborted = FALSE
  /\ \E st \in OneSettings :
       /\ body = [settings |-> st, lowStockQuery |-> FALSE]
       /\ sessionCache = cacheSession(EmptyMap, st, 1, 0)
       /\ puts = MapSet(EmptyMap, Identity(st),
                        [sessionId |-> 1, at |-> 0, password |-> st.password])
  /\ sessionId = 1
  /\ newSessionId = NoSession
  /\ \E fp \in FilterInputsWide :
       /\ queryResult = [objectName |-> "Orders", filterParams |-> fp]
       /\ fetch = NewFetch("first", 1, "Orders", fp, ~HasTop(fp), TopMatch(fp))
  /\ login = [forceNew |-> FALSE, result |-> 1]
  /\ thrown = <<>>
  /\ result = NoResult
  /\ response = NoResponse
  /\ loginPosts = 1
  /\ fetchCalls = 1
  /\ obs = NoObs
  /\ calls = NoCalls
  /\ swept = {}
  /\ nl = NoNL

NextFetch ==
  \/ FetchStart
  \/ FetchTop(MaxPages)
  \/ PageResponse(AnswersWide)
  \/ SingleResponse(AnswersWide)

SpecFetch == InitFetch /\ [][NextFetch]_vars

\* ------------------------------------------------------------------------
\* SpecFetchLive: one executeSAPB1Query call every request of which is
\* answered in the end, with no bound on the number of pages.  The upstream
\* is a server that reads a table: it answers a page with as many rows as
\* were asked for, with far more, or with none; once a page came back with
\* fewer rows than asked the table has ended and every later page is
\* empty.  It sends the same count with every page: none, a count that is
\* no number, or a count of two pages, taken when the table had rows; the
\* rows reach that count, or never reach it when the table ends sooner.
\* Any request may fail with an error or come back without value array, and
\* the client may cancel.  The call has no row limit, or a limit below a
\* page, or makes the single request.
\* ------------------------------------------------------------------------
AnswersLive ==
  LET first == fetch.received = <<>>
      ended == /\ ~first
               /\ fetch.received[Len(fetch.received)]
                     < fetch.issued[Len(fetch.received)].top
      sent == fetch.totalCountFromServer
      hints == IF first THEN {NoHint, HintAt(2 * pageSize), HintCount(NaN)}
               ELSE IF sent = Null THEN {NoHint}
               ELSE IF sent = NaN THEN {HintCount(NaN)}
               ELSE {HintAt(sent)}
      rows == {RowsAnswer(n, h, FALSE) :
                 n \in IF ended THEN {0} ELSE WithTop({0, 50000}), h \in hints}
  IN {a \in rows : ~(first /\ a.n = 0 /\ CountKnown(CountHint(a.hint)))}
       \cup {ErrorAnswer(HttpErrorMsg("500", "Internal Server Error", <<>>)),
             ShapeAnswer("object", 0)}

NextFetchLive ==
  \/ FetchStart
  \/ FetchTop(SafetyLimit + 1)
  \/ PageResponse(AnswersLive)
  \/ SingleResponse(AnswersLive)
  \/ Cancel

\* The call as POST makes it, with no row limit or a limit below a page
InitFetchLive ==
  /\ InitFetch
  /\ fetch.requestedLimit < pageSize

\* The handler runs on and each request returns in the end
SpecFetchLive == InitFetchLive /\ [][NextFetchLive]_vars /\ WF_vars(NextFetchLive)

\* ------------------------------------------------------------------------
\* SpecSession: consecutive POST requests sharing the session cache, with
\* the clock and the cleanup timer
\* ------------------------------------------------------------------------
NextSession ==
  \/ PostStart(SettingsInputs, {FALSE}, {FALSE})
  \/ LoginStart
  \/ LoginResponse(LoginAnswers)
  \/ LoginReturned
  \/ NLResponse({"Orders"}, {<<TopClause(1)>>, <<TopClause(0)>>})
  \/ FetchStart
  \/ FetchTop(MaxPagesPost)
  \/ PageResponse(AnswersSession)
  \/ SingleResponse(AnswersSession)
  \/ FetchReturned
  \/ FetchThrew
  \/ PostProcess
  \/ ChartResponse(FieldInputsSession, ChartAnswersSession)
  \/ Tick
  \/ Sweep

SpecSession == Init /\ [][NextSession]_vars

\* ------------------------------------------------------------------------
\* SpecLogin: loginToSAPB1 and the test-connection route, called by
\* concurrent route handlers that share the session cache, with the clock
\* and the cleanup timer.  A caller runs from one await to the next without
\* interruption.
\* ------------------------------------------------------------------------
callFrame == <<requests, pc, aborted, body, sessionId, newSessionId,
               queryResult, login, fetch, thrown, result, response,
               loginPosts, fetchCalls, obs, swept, nl>>

\* Calls made so far by all callers
RECURSIVE CallsMade(_)
CallsMade(cs) ==
  IF cs = {} THEN 0
  ELSE LET c == CHOOSE x \in cs : TRUE IN calls[c].n + CallsMade(cs \ {c})

CanCall(c) == calls[c].state # "wait" /\ CallsMade(Callers) < MaxCalls

\* The callers whose non-forced login for the same connection key missed the
\* cache and is awaiting its login POST
PeersWaiting(c, settings) ==
  {d \in Callers \ {c} :
     /\ calls[d].kind = "login"
     /\ calls[d].state = "wait"
     /\ ~calls[d].forceNew
     /\ getConnectionKey(calls[d].settings) = getConnectionKey(settings)}

\* A handler calls loginToSAPB1(settings) for its request: the handlers
\* force a login only in the catch of a failed query (RetryLoginCall)
LoginCall(c, settingsSet) ==
  /\ CanCall(c)
  /\ \E st \in settingsSet :
       LET forceNew == FALSE
           r == LoginSync(sessionCache, st, forceNew, now)
           peers == IF r.state = "wait" /\ ~forceNew THEN PeersWaiting(c, st) ELSE {}
       IN /\ sessionCache' = r.cache
          /\ puts' = IF r.removed THEN MapDelete(puts, Identity(st)) ELSE puts
          /\ calls' = [d \in Callers |->
                IF d = c
                THEN [kind |-> "login", state |-> r.state, settings |-> st,
                      forceNew |-> forceNew, answer |-> "", result |-> r.result,
                      posts |-> IF r.state = "wait" THEN 1 ELSE 0,
                      concurrent |-> peers # {}, n |-> calls[c].n + 1]
                ELSE IF d \in peers THEN [calls[d] EXCEPT !.concurrent = TRUE]
                ELSE calls[d]]
  /\ UNCHANGED <<now, ticks, nextSession, callFrame>>

\* The catch of a handler whose query, sent with the session its login
\* returned, failed with an auth-classified error: removeSession(settings)
\* and then loginToSAPB1(settings, true) up to its login POST.  One retry
\* per request.
RetryLoginCall(c) ==
  /\ calls[c].kind = "login"
  /\ calls[c].state = "returned"
  /\ ~calls[c].forceNew
  /\ calls[c].result # NoSession
  /\ LET st == calls[c].settings
         r == LoginSync(removeSession(sessionCache, st), st, TRUE, now)
     IN /\ sessionCache' = r.cache
        /\ puts' = MapDelete(puts, Identity(st))
        /\ calls' = [calls EXCEPT ![c] =
              [kind |-> "login", state |-> r.state, settings |-> st,
               forceNew |-> TRUE, answer |-> "", result |-> r.result,
               posts |-> IF r.state = "wait" THEN 1 ELSE 0,
               concurrent |-> FALSE, n |-> calls[c].n]]
  /\ UNCHANGED <<now, ticks, nextSession, callFrame>>

\* The login POST of a loginToSAPB1 call answered
LoginAnswer(c) ==
  /\ calls[c].kind = "login"
  /\ calls[c].state = "wait"
  /\ \E answer \in LoginAnswers :
       /\ calls' = [calls EXCEPT ![c].state = "returned", ![c].answer = answer,
                                 ![c].result = LoginResult(answer, nextSession)]
       /\ sessionCache' = LoginCache(sessionCache, calls[c].settings,
                                     calls[c].forceNew, answer, nextSession, now)
       /\ nextSession' = IF answer = "token" THEN nextSession + 1 ELSE nextSession
       /\ puts' = LoginPuts(puts, calls[c].settings, calls[c].forceNew, answer,
                             nextSession, now)
  /\ UNCHANGED <<now, ticks, callFrame>>

\* if (!sapServer || !companyDB || !userName || !password)
FieldMissing(settings) ==
  \/ settings.sapServer \in {Undefined, <<>>}
  \/ settings.companyDB \in {Undefined, <<>>}
  \/ settings.userName \in {Undefined, <<>>}
  \/ settings.password = ""

\* The settings the test-connection route passes on: the server normalised
TestSettings(settings) == [settings EXCEPT !.sapServer = NormalizeServer(@)]

\* The test-connection route up to its login POST: it never looks into the
\* cache
TestCall(c, settingsSet) ==
  /\ CanCall(c)
  /\ \E st \in settingsSet :
       calls' = [calls EXCEPT ![c] =
          [kind |-> "test",
           state |-> IF FieldMissing(st) \/ UrlThrows(st) THEN "returned" ELSE "wait",
           settings |-> IF FieldMissing(st) THEN st ELSE TestSettings(st),
           forceNew |-> FALSE, answer |-> "", result |-> NoSession,
           posts |-> IF FieldMissing(st) \/ UrlThrows(st) THEN 0 ELSE 1,
           concurrent |-> FALSE, n |-> calls[c].n + 1]]
  /\ UNCHANGED <<sessionCache, now, ticks, nextSession, puts, callFrame>>

\* The login POST of testSAPB1Connection answered: cacheSession on a token,
\* no effect on the cache otherwise
TestAnswer(c) ==
  /\ calls[c].kind = "test"
  /\ calls[c].state = "wait"
  /\ \E answer \in LoginAnswers :
       /\ calls' = [calls EXCEPT ![c].state = "returned", ![c].answer = answer,
                                 ![c].result = LoginResult(answer, nextSession)]
       /\ sessionCache' = IF answer = "token"
                          THEN cacheSession(sessionCache, calls[c].settings,
                                            nextSession, now)
                          ELSE sessionCache
       /\ nextSession' = IF answer = "token" THEN nextSession + 1 ELSE nextSession
       /\ puts' = IF answer = "token"
                  THEN LoginPuts(puts, calls[c].settings, FALSE, answer,
                                 nextSession, now)
                  ELSE puts
  /\ UNCHANGED <<now, ticks, callFrame>>

NextLogin ==
  \/ \E c \in Callers : LoginCall(c, SettingsLogin)
  \/ \E c \in Callers : RetryLoginCall(c)
  \/ \E c \in Callers : LoginAnswer(c)
  \/ \E c \in Callers : TestCall(c, SettingsTest)
  \/ \E c \in Callers : TestAnswer(c)
  \/ (ticks < MaxTicksLogin /\ Tick)
  \/ Sweep

SpecLogin == Init /\ [][NextLogin]_vars

\* ========================================================================
\* Properties
\* ========================================================================
ThirtyMinutes == 30 * 60 * 1000

RECURSIVE SumSeq(_)
SumSeq(q) == IF q = <<>> THEN 0 ELSE q[1] + SumSeq(Tail(q))

\* The error classes as the orchestrator's contract names them
AuthClassified(msg) ==
  \E m \in {"401", "Unauthorized", "Session", "authentication"} : MsgIncludes(msg, m)

\* C1: when the first fetch of a request fails with an auth-classified
\* error, the request performs exactly one forced login (one login POST more)
\* and, if that login yields a token, exactly one retried fetch; whatever
\* the retried fetch does, no further login or fetch follows.
C1_AuthRetryBounded ==
  /\ obs.forcedLogins <= 1
  /\ fetchCalls <= 2
  /\ (obs.firstThrown # <<>> /\ AuthClassified(obs.firstThrown)) =>
       /\ obs.forcedLogins = 1
       /\ loginPosts <= 2
       /\ pc \notin {"login_start", "login_wait"} => loginPosts = 2
       /\ fetchCalls = IF newSessionId # NoSession THEN 2 ELSE 1
       /\ fetchCalls = 2 => fetch.phase = "authRetry"

\* C1 witness: the retried fetch failed with an auth error too and the
\* request ended
C1_Witness ==
  /\ pc = "done"
  /\ AuthClassified(obs.firstThrown)
  /\ fetch.phase = "authRetry"
  /\ AuthClassified(thrown)
  /\ fetchCalls = 2
  /\ loginPosts = 2
  /\ response.status = 500

\* A session was cached for the connection less than 30 minutes ago and not
\* invalidated since
FreshPut(settings) ==
  /\ Identity(settings) \in DOMAIN puts
  /\ now < puts[Identity(settings)].at + ThirtyMinutes

\* C2: a non-forced login that starts less than 30 minutes after a session
\* was cached for the same connection, with no invalidation in between,
\* returns that session and sends no login POST.
C2_SessionReuse ==
  [][(pc = "login_start" /\ ~login.forceNew /\ FreshPut(body.settings)) =>
       /\ pc' = "login_returned"
       /\ login'.result = puts[Identity(body.settings)].sessionId
       /\ loginPosts' = loginPosts]_vars

\* C2 witness: the second request names the server by its login URL, one
\* millisecond before the 30 minutes are over, and got the cached session
C2_Witness ==
  /\ requests = 2
  /\ pc = "login_returned"
  /\ ~login.forceNew
  /\ body.settings = MkSettings(Server1 \o LoginPath, "pw2")
  /\ Identity(body.settings) \in DOMAIN puts
  /\ now = puts[Identity(body.settings)].at + ThirtyMinutes - 1
  /\ login.result = puts[Identity(body.settings)].sessionId
  /\ loginPosts = 0

\* C3: the cache lookup of a non-forced login returns the cached session if
\* and only if an entry exists and now < expiresAt; otherwise (the boundary
\* now = expiresAt included) the entry is gone afterwards, nothing is
\* returned and the login sends a fresh login POST.
C3_SessionExpiry ==
  [][(pc = "login_start" /\ ~login.forceNew) =>
       LET key == getConnectionKey(body.settings)
       IN IF key \in DOMAIN sessionCache /\ now < sessionCache[key].expiresAt
          THEN /\ pc' = "login_returned"
               /\ login'.result = sessionCache[key].sessionId
               /\ loginPosts' = loginPosts
          ELSE /\ key \notin DOMAIN sessionCache'
               /\ pc' = "login_wait"
               /\ loginPosts' = loginPosts + 1]_vars

\* C3 witness: a login exactly 30 minutes after the session was cached sent
\* a login POST and the entry is gone
C3_Witness ==
  /\ requests = 2
  /\ pc = "login_wait"
  /\ ~login.forceNew
  /\ Identity(body.settings) \in DOMAIN puts
  /\ now = puts[Identity(body.settings)].at + ThirtyMinutes
  /\ getConnectionKey(body.settings) \notin DOMAIN sessionCache
  /\ loginPosts = 1

\* A paginated call without row limit in which every answer so far carried
\* a value array
UnlimitedRows(f) ==
  /\ UsesPagination(f)
  /\ f.requestedLimit = Null
  /\ \A i \in 1..Len(f.received) : f.received[i] >= 0

\* The first page carried a total count N > 0 and the pages received so far
\* do not exceed N
KnownCountCase(f) ==
  /\ UnlimitedRows(f)
  /\ f.countPage = 1
  /\ f.totalCountFromServer > 0
  /\ SumSeq(f.received) <= f.totalCountFromServer

\* C4 as stated: with a count hint N > 0 on the first page, no row limit and
\* pages that sum to N, the paginated fetch returns exactly N rows and sends
\* no page request after the page on which the rows received reach N.
C4_KnownCountOriginal ==
  /\ (pc = "fetch_returned" /\ KnownCountCase(fetch)) =>
        RowCount(fetch.allResults) = fetch.totalCountFromServer
  /\ (KnownCountCase(fetch) /\ SumSeq(fetch.received) = fetch.totalCountFromServer) =>
        Len(fetch.issued) = Len(fetch.received)

\* C4 amended: the same, as long as the offset of the next page stays below
\* the safety limit of 100000.
C4_KnownCount ==
  /\ (pc = "fetch_returned" /\ KnownCountCase(fetch) /\ fetch.skip < SafetyLimit) =>
        RowCount(fetch.allResults) = fetch.totalCountFromServer
  /\ (KnownCountCase(fetch) /\ SumSeq(fetch.received) = fetch.totalCountFromServer) =>
        Len(fetch.issued) = Len(fetch.received)

\* C4 witness: N = 237, pages of 100, 100 and 37 rows, three requests
C4_Witness ==
  /\ pc = "fetch_returned"
  /\ KnownCountCase(fetch)
  /\ fetch.totalCountFromServer = 237
  /\ fetch.received = <<100, 100, 37>>
  /\ Len(fetch.issued) = 3
  /\ RowCount(fetch.allResults) = 237

\* The pages received are k non-empty pages followed by empty pages only
NonEmptyPages(f) == Cardinality({i \in 1..Len(f.received) : f.received[i] > 0})

UnknownCountCase(f) ==
  /\ UnlimitedRows(f)
  /\ f.totalCountFromServer = Null
  /\ \A i \in 1..Len(f.received) :
       (f.received[i] > 0) <=> (i <= NonEmptyPages(f))

\* The rows of the first k pages, in order
FirstPages(f, k) == [i \in 1..k |-> [page |-> i, n |-> f.received[i], low |-> FALSE]]

\* C5 as stated: with no count hint and no row limit, k non-empty pages
\* followed by empty pages give the concatenation of the k pages, and the
\* fetch stops exactly after the third consecutive empty page: k + 3 requests.
C5_UnknownCountOriginal ==
  (pc = "fetch_returned" /\ UnknownCountCase(fetch)) =>
     /\ fetch.allResults = FirstPages(fetch, NonEmptyPages(fetch))
     /\ Len(fetch.issued) = NonEmptyPages(fetch) + 3

\* C5 amended: the same, as long as the offset of the next page stays below
\* the safety limit of 100000.
C5_UnknownCount ==
  (pc = "fetch_returned" /\ UnknownCountCase(fetch) /\ fetch.skip < SafetyLimit) =>
     /\ fetch.allResults = FirstPages(fetch, NonEmptyPages(fetch))
     /\ Len(fetch.issued) = NonEmptyPages(fetch) + 3

\* C5 witness: three non-empty pages, then three empty ones, six requests
C5_Witness ==
  /\ pc = "fetch_returned"
  /\ UnknownCountCase(fetch)
  /\ fetch.received = <<100, 100, 37, 0, 0, 0>>
  /\ Len(fetch.issued) = 6
  /\ RowCount(fetch.allResults) = 237

\* C6 as stated: the offset of each further page request is the previous
\* offset plus the number of rows the previous page returned, for every
\* number of rows.
C6_OffsetOriginal ==
  UsesPagination(fetch) =>
    \A i \in 1..(Len(fetch.issued) - 1) :
      fetch.issued[i + 1].skip = fetch.issued[i].skip + fetch.received[i]

\* C6 amended: the offset of each further page request is the previous
\* offset plus the number of rows the previous page returned when it
\* returned any, and the previous offset plus 20 after a page of zero rows.
C6_Offset ==
  UsesPagination(fetch) =>
    \A i \in 1..(Len(fetch.issued) - 1) :
      fetch.issued[i + 1].skip =
        fetch.issued[i].skip + (IF fetch.received[i] > 0 THEN fetch.received[i] ELSE EmptyPageIncrement)

\* C6 witness: 1000 rows asked, 37 returned, next offset 37; then an empty
\* page, next offset 57
C6_Witness ==
  /\ UsesPagination(fetch)
  /\ Len(fetch.issued) = 3
  /\ fetch.issued[1].top = pageSize
  /\ fetch.received[1] = 37
  /\ fetch.issued[2].skip = 37
  /\ fetch.received[2] = 0
  /\ fetch.issued[3].skip = 57

\* C7: with a row limit L, a paginated fetch never holds more than L rows,
\* also when a page carries more rows than $top asked for.
C7_RowLimit ==
  (UsesPagination(fetch) /\ fetch.requestedLimit # Null) =>
     RowCount(fetch.allResults) <= fetch.requestedLimit

\* C7 witness: 10 rows asked, 37 returned, 10 kept
C7_Witness ==
  /\ UsesPagination(fetch)
  /\ fetch.requestedLimit = 10
  /\ Len(fetch.issued) = 1
  /\ fetch.issued[1].top = 10
  /\ fetch.received = <<37>>
  /\ RowCount(fetch.allResults) = 10

\* C8: with a row limit L every page request asks for
\* min(pageSize, L - rows accumulated) rows; when L <= pageSize and the first
\* page carries at least L rows, exactly L rows are returned after exactly
\* one page request.
C8_RowLimitEnforcement ==
  (UsesPagination(fetch) /\ Truthy(fetch.requestedLimit)) =>
     /\ \A i \in 1..Len(fetch.issued) :
          fetch.issued[i].top =
            Min(pageSize, fetch.requestedLimit - SumSeq(SubSeq(fetch.received, 1, i - 1)))
     /\ (/\ pc = "fetch_returned"
         /\ fetch.requestedLimit <= pageSize
         /\ Len(fetch.received) >= 1
         /\ fetch.received[1] >= fetch.requestedLimit) =>
           /\ RowCount(fetch.allResults) = fetch.requestedLimit
           /\ Len(fetch.issued) = 1

\* C8 witness: L = 10, one request with $top = 10, 10 rows returned
C8_Witness ==
  /\ pc = "fetch_returned"
  /\ fetch.requestedLimit = 10
  /\ Len(fetch.issued) = 1
  /\ fetch.issued[1].top = 10
  /\ fetch.received = <<10>>
  /\ RowCount(result.rows) = 10

\* C8 second witness state, kept for reference: a limit above the page size
C8_WitnessSecondPage ==
  /\ fetch.requestedLimit = 1037
  /\ Len(fetch.issued) = 2
  /\ fetch.issued[1].top = pageSize
  /\ fetch.issued[2].top = 37

\* C9: once the client aborted while a page request was in flight, the
\* fetch sends no further page request, and the request never ends as a
\* success.
C9_CancelStopsPagination ==
  (aborted /\ obs.cancelPc = "page_wait") =>
     /\ fetchCalls = obs.cancelFetch => Len(fetch.issued) = obs.cancelPages
     /\ response.status # 200

\* C9 witness: aborted while the second page was in flight, rows of the
\* first page accumulated, the request ended without success
C9_Witness ==
  /\ aborted
  /\ obs.cancelPc = "page_wait"
  /\ obs.cancelPages = 2
  /\ fetchCalls = obs.cancelFetch
  /\ RowCount(fetch.allResults) > 0
  /\ thrown = CancelMsg
  /\ pc = "done"
  /\ response.status # 200

\* C10: a request in which a cancellation check observed the signal ends
\* with status 499 'Request cancelled by user', never with status 500.
C10_CancelledDistinct ==
  (pc = "done" /\ (thrown = CancelMsg \/ response.status = 499)) =>
     /\ response.status = 499
     /\ response.error = CancelMsg

\* The connection key of the call a caller made
CallKey(c) == getConnectionKey(calls[c].settings)

\* C11: every entry of the session cache has expiresAt = createdAt + 30
\* minutes, whichever writer created it (query login, forced re-login,
\* test-connection) and whatever gets, invalidations and sweeps ran.
C11_ExpiresAt ==
  \A k \in DOMAIN sessionCache :
     sessionCache[k].expiresAt = sessionCache[k].createdAt + ThirtyMinutes

\* C11 witness: the cache holds an entry written by the test-connection
\* route and a later one written by a forced re-login
C11_Witness ==
  \E c \in Callers, d \in Callers :
     /\ calls[c].kind = "test"
     /\ calls[d].kind = "login" /\ calls[d].forceNew
     /\ calls[c].result # NoSession /\ calls[d].result # NoSession
     /\ CallKey(c) \in DOMAIN sessionCache
     /\ CallKey(d) \in DOMAIN sessionCache
     /\ sessionCache[CallKey(c)].sessionId = calls[c].result
     /\ sessionCache[CallKey(d)].sessionId = calls[d].result
     /\ sessionCache[CallKey(c)].createdAt = 0
     /\ sessionCache[CallKey(d)].createdAt = ThirtyMinutes - 1
     /\ sessionCache[CallKey(d)].expiresAt = 2 * ThirtyMinutes - 1

\* A loginToSAPB1 call of caller c returns the cached token in this step
HitStep(c) ==
  /\ calls'[c].n = calls[c].n + 1
  /\ calls'[c].kind = "login"
  /\ calls'[c].state = "returned"
  /\ calls'[c].result # NoSession

\* C12: a get that returns a token leaves the cache as it was, and an entry
\* that is still the one put expires 30 minutes after that put however
\* often it was read.
C12_HitNoEffect ==
  /\ [][\A c \in Callers : HitStep(c) => sessionCache' = sessionCache]_vars
  /\ [](\A c \in Callers :
          (/\ calls[c].kind = "login" /\ calls[c].state = "returned"
           /\ calls[c].posts = 0 /\ calls[c].result # NoSession
           /\ CallKey(c) \in DOMAIN sessionCache
           /\ Identity(calls[c].settings) \in DOMAIN puts
           /\ sessionCache[CallKey(c)].sessionId = puts[Identity(calls[c].settings)].sessionId)
          => sessionCache[CallKey(c)].expiresAt =
               puts[Identity(calls[c].settings)].at + ThirtyMinutes)

\* C12 witness: an entry put at 0 was read one millisecond before its expiry
\* and still expires at 30 minutes
C12_Witness ==
  \E c \in Callers :
     /\ calls[c].kind = "login" /\ calls[c].state = "returned"
     /\ ~calls[c].forceNew /\ calls[c].posts = 0
     /\ calls[c].result # NoSession
     /\ now = ThirtyMinutes - 1
     /\ CallKey(c) \in DOMAIN sessionCache
     /\ sessionCache[CallKey(c)] =
          [sessionId |-> calls[c].result, createdAt |-> 0, expiresAt |-> ThirtyMinutes]

\* C13: a sweep removes exactly the entries with now >= expiresAt and leaves
\* the others unchanged, so every get returns after the sweep what it would
\* have returned before it.
C13_SweepExact ==
  [][Sweep =>
       /\ DOMAIN sessionCache' =
            {k \in DOMAIN sessionCache : now < sessionCache[k].expiresAt}
       /\ \A k \in DOMAIN sessionCache' : sessionCache'[k] = sessionCache[k]
       /\ \A st \in (SettingsLogin \cup SettingsTest) :
            ~TrimThrows(st) =>
               getCachedSession(sessionCache', st, now) =
                 getCachedSession(sessionCache, st, now)]_vars

\* C13 witness: the sweep removed an entry at the instant it expired and
\* kept a younger one
C13_Witness ==
  /\ swept # {}
  /\ \A k \in swept : k \notin DOMAIN sessionCache
  /\ now = ThirtyMinutes
  /\ \E k \in DOMAIN sessionCache :
       /\ sessionCache[k].createdAt = ThirtyMinutes - 1
       /\ now < sessionCache[k].expiresAt

\* The login POST of caller c's loginToSAPB1 call is answered in this step
AnswerStep(c) ==
  /\ calls[c].kind = "login"
  /\ calls[c].state = "wait"
  /\ calls'[c].state = "returned"

\* C14: when the login POST ends in a non-2xx response or a network error,
\* forced or not, login returns null and the cache holds no entry for the
\* connection when it returns.
C14_FailureInvalidates ==
  [][\A c \in Callers :
       (AnswerStep(c) /\ calls'[c].answer \in {"non2xx", "neterr"}) =>
          /\ calls'[c].result = NoSession
          /\ CallKey(c) \notin DOMAIN sessionCache']_vars

\* C14 witness: a non-forced login failed with a non-2xx answer after another
\* caller had cached a token for the same connection; the entry is gone
C14_Witness ==
  \E c \in Callers, d \in Callers :
     /\ c # d
     /\ calls[c].kind = "login" /\ calls[c].state = "returned"
     /\ ~calls[c].forceNew
     /\ calls[c].answer = "non2xx"
     /\ calls[c].result = NoSession
     /\ calls[d].kind = "login" /\ calls[d].state = "returned"
     /\ calls[d].answer = "token"
     /\ calls[c].concurrent /\ calls[d].concurrent
     /\ CallKey(c) = CallKey(d)
     /\ CallKey(c) \notin DOMAIN sessionCache

\* C15: a login whose POST succeeds without a token returns null, removes
\* the entry of the connection when it was forced, and leaves the cache
\* unchanged when it was not.
C15_NoTokenForced ==
  [][\A c \in Callers :
       (AnswerStep(c) /\ calls'[c].answer = "notoken") =>
          /\ calls'[c].result = NoSession
          /\ calls[c].forceNew => sessionCache' = MapDelete(sessionCache, CallKey(c))
          /\ ~calls[c].forceNew => sessionCache' = sessionCache]_vars

\* C15 witness: a non-forced login got no token while the cache held an
\* entry for its connection, which is still there
C15_Witness ==
  \E c \in Callers :
     /\ calls[c].kind = "login" /\ calls[c].state = "returned"
     /\ ~calls[c].forceNew
     /\ calls[c].answer = "notoken"
     /\ calls[c].result = NoSession
     /\ CallKey(c) \in DOMAIN sessionCache

\* C15 second witness state, kept for reference: a forced login got no
\* token and the entry another call had cached is gone
C15_WitnessForced ==
  \E c \in Callers, d \in Callers :
     /\ c # d
     /\ calls[c].kind = "login" /\ calls[c].forceNew
     /\ calls[c].answer = "notoken"
     /\ calls[d].answer = "token"
     /\ CallKey(c) = CallKey(d)
     /\ CallKey(c) \notin DOMAIN sessionCache

\* C16: loginToSAPB1 never throws past its boundary: for every settings
\* object, also one with a missing or malformed field, and every answer of
\* the upstream, a call ends with a token or null, never with an exception.
C16_LoginNeverThrows ==
  \A c \in Callers : calls[c].kind = "login" => calls[c].state # "threw"

\* In this step caller c's login POST is answered with a token while caller
\* d, whose login for the same connection ran concurrently after a miss of
\* both, already returned with its token
SecondPutStep(c, d) ==
  /\ c # d
  /\ AnswerStep(c)
  /\ calls'[c].answer = "token"
  /\ ~calls[c].forceNew /\ calls[c].concurrent
  /\ calls[d].kind = "login" /\ calls[d].state = "returned"
  /\ ~calls[d].forceNew /\ calls[d].concurrent
  /\ calls[d].answer = "token"
  /\ CallKey(c) = CallKey(d)

\* The keys of the cache under which settings of the connection `st` names
\* are stored
KeysOf(cache, st) ==
  {k \in DOMAIN cache :
     \E other \in SettingsLogin \cup SettingsTest :
        /\ ~TrimThrows(other)
        /\ Identity(other) = Identity(st)
        /\ getConnectionKey(other) = k}

\* C17: when two concurrent logins for one connection both missed the cache
\* and both got a token, the cache holds after the later put exactly one
\* entry for the connection, with the token of the later put and expiresAt
\* = its time + 30 minutes, and each caller has the token of its own login.
C17_ConcurrentMisses ==
  [][\A c \in Callers, d \in Callers :
       SecondPutStep(c, d) =>
          /\ KeysOf(sessionCache', calls[c].settings) = {CallKey(c)}
          /\ sessionCache'[CallKey(c)] =
               [sessionId |-> calls'[c].result, createdAt |-> now,
                expiresAt |-> now + ThirtyMinutes]
          /\ calls'[c].result = nextSession
          /\ calls'[d].result = calls[d].result
          /\ calls[d].result # NoSession
          /\ calls'[c].result # calls'[d].result]_vars

\* C17 witness: two callers wrote the same connection in two spellings,
\* both missed, both logged in; the cache holds the later token, put at 1
C17_Witness ==
  \E c \in Callers, d \in Callers :
     /\ c # d
     /\ calls[c].kind = "login" /\ calls[d].kind = "login"
     /\ calls[c].state = "returned" /\ calls[d].state = "returned"
     /\ calls[c].concurrent /\ calls[d].concurrent
     /\ ~calls[c].forceNew /\ ~calls[d].forceNew
     /\ calls[c].settings # calls[d].settings
     /\ CallKey(c) = CallKey(d)
     /\ calls[d].result = 1 /\ calls[c].result = 2
     /\ DOMAIN sessionCache = {CallKey(c)}
     /\ sessionCache[CallKey(c)] =
          [sessionId |-> 2, createdAt |-> 1, expiresAt |-> 1 + ThirtyMinutes]

\* A non-forced loginToSAPB1 call starts in this step for a connection whose
\* last put, under another password, is less than 30 minutes old and was not
\* invalidated since
OtherPasswordStep(c) ==
  /\ calls'[c].n = calls[c].n + 1
  /\ calls'[c].kind = "login"
  /\ ~calls'[c].forceNew
  /\ Identity(calls'[c].settings) \in DOMAIN puts
  /\ puts[Identity(calls'[c].settings)].password # calls'[c].settings.password
  /\ now < puts[Identity(calls'[c].settings)].at + ThirtyMinutes

\* C18: after a put for (server, database, user) under one password, a
\* non-forced login for the same server, database and user with another
\* password returns the cached token without a login POST, until the entry
\* expires or is invalidated.
C18_PasswordNotInKey ==
  [][\A c \in Callers :
       OtherPasswordStep(c) =>
          /\ calls'[c].state = "returned"
          /\ calls'[c].result = puts[Identity(calls'[c].settings)].sessionId
          /\ calls'[c].posts = 0
          /\ sessionCache' = sessionCache]_vars

\* C18 witness: a token cached under pw1 was returned to a call with pw2
C18_Witness ==
  \E c \in Callers :
     /\ calls[c].kind = "login" /\ calls[c].state = "returned"
     /\ ~calls[c].forceNew
     /\ calls[c].posts = 0
     /\ calls[c].settings.password = "pw2"
     /\ Identity(calls[c].settings) \in DOMAIN puts
     /\ puts[Identity(calls[c].settings)].password = "pw1"
     /\ calls[c].result = puts[Identity(calls[c].settings)].sessionId
     /\ calls[c].result # NoSession

\* C19: within one paginated fetch the offsets of the page requests are
\* strictly increasing, whatever the upstream answers.
C19_SkipIncreasing ==
  UsesPagination(fetch) =>
    \A i \in 1..Len(fetch.issued), j \in 1..Len(fetch.issued) :
       i < j => fetch.issued[i].skip < fetch.issued[j].skip

\* C19 witness: a fetch that ended successfully after a page of 37 rows and
\* three empty pages asked for the offsets 0, 37, 57 and 77
C19_Witness ==
  /\ pc = "fetch_returned"
  /\ UsesPagination(fetch)
  /\ fetch.received = <<37, 0, 0, 0>>
  /\ Len(fetch.issued) = 4
  /\ fetch.issued[1].skip = 0
  /\ fetch.issued[2].skip = 37
  /\ fetch.issued[3].skip = 57
  /\ fetch.issued[4].skip = 77

\* The filter the invalid-filter retry is to use: the caller's explicit row
\* limit alone, nothing when the caller gave none
CallersTopOnly(fp) ==
  IF \E i \in 1..Len(fp) : fp[i].name = "$top" /\ fp[i].num >= 0
  THEN <<[name |-> "$top", text |-> "",
          num |-> (fp[CHOOSE i \in 1..Len(fp) :
                        /\ fp[i].name = "$top" /\ fp[i].num >= 0
                        /\ \A j \in 1..(i - 1) :
                              ~(fp[j].name = "$top" /\ fp[j].num >= 0)]).num]>>
  ELSE <<>>

\* C20: the Items invalid-filter retry is narrow and single: it is made only
\* for the resource 'Items' with a non-empty original filter after an error
\* that is not auth-classified and mentions 'invalid' or 'Property'; it is
\* the second and last fetch of the request; and its filter is the caller's
\* explicit $top clause alone, empty when the caller gave none.
C20_ItemsRetryNarrow ==
  fetch.phase = "itemsRetry" =>
    /\ queryResult.objectName = "Items"
    /\ queryResult.filterParams # <<>>
    /\ ~AuthClassified(obs.firstThrown)
    /\ \/ MsgIncludes(obs.firstThrown, "invalid")
       \/ MsgIncludes(obs.firstThrown, "Property")
    /\ fetchCalls = 2
    /\ fetch.filterParams = CallersTopOnly(queryResult.filterParams)

\* In this step the handler sends a request upstream: a login POST, a page
\* request or the single request
SendsUpstream ==
  \/ loginPosts' = loginPosts + 1
  \/ (pc' \in {"page_wait", "single_wait"} /\ pc' # pc)

\* C21: cancellation is checked at every suspension point: once the signal
\* is set, the request sends no login POST (neither the first nor the forced
\* one of a retry) and no page or retried request upstream.
C21_CancelEverywhere ==
  [][aborted => ~SendsUpstream]_vars

\* The fixed enumeration of valid resource names
ValidNames == {SAP_B1_OBJECTS[i] : i \in 1..Len(SAP_B1_OBJECTS)}

\* C22: whatever object name the natural-language step's answer carries,
\* the object name of every request sent upstream is a member of the
\* enumeration of valid names.
C22_OnlyListedNames ==
  \A i \in 1..Len(fetch.issued) : fetch.issued[i].objectName \in ValidNames

\* C22 witness: the answer named an object that is not in the list, the
\* query text 'every invoice' matches no listed name, and the request sent
\* upstream asks for the keyword fallback 'Invoices'
C22_Witness ==
  /\ nl.objectName \notin ValidNames
  /\ nl.objectName = "SalesOrders"
  /\ nl.query = <<"e", "v", "e", "r", "y", " ", "i", "n", "v", "o", "i", "c", "e">>
  /\ Len(fetch.issued) > 0
  /\ fetch.issued[1].objectName = "Invoices"

\* C23: when the chart-recommendation call fails after a successful fetch
\* (network error, non-2xx status, missing key, unparseable output), the
\* request succeeds and returns the chart recommendation of the local
\* rule-based heuristic for the rows and the query text.
C23_ChartFallbackLocal ==
  (pc = "done" /\ obs.chartAnswer \in ChartFailures) =>
     /\ response.status = 200
     /\ response.recommended = analyzeDataForChartTypes(obs.fields)
     /\ response.chart = analyzeDataForChartTypes(obs.fields)[1]

\* Page request number i follows three consecutive zero-row pages
AfterThreeEmpty(f, i) ==
  /\ i > MaxConsecutiveEmpty
  /\ i - 1 <= Len(f.received)
  /\ \A k \in 1..MaxConsecutiveEmpty : f.received[i - k] = 0

\* C24: in every paginated fetch, with or without a known total count, no
\* page request is issued after three consecutive zero-row pages.
C24_ZeroRowTolerance ==
  UsesPagination(fetch) =>
    \A i \in 1..Len(fetch.issued) : ~AfterThreeEmpty(fetch, i)

\* The rows the first k answers of a fetch carried
RowsFetched(f, k) == SumSeq(SubSeq(f.received, 1, k))

\* C25: whatever the upstream returns, a paginated fetch issues no page
\* request once 100,000 rows have been fetched.
C25_SafetyCeiling ==
  UsesPagination(fetch) =>
    \A i \in 1..Len(fetch.issued) :
       i - 1 <= Len(fetch.received) => RowsFetched(fetch, i - 1) < SafetyLimit

\* C25 witness: two pages of 50,000 rows without a count reached the
\* ceiling and the fetch ended with them
C25_Witness ==
  /\ pc = "fetch_returned"
  /\ UsesPagination(fetch)
  /\ fetch.totalCountFromServer = Null
  /\ fetch.received = <<50000, 50000>>
  /\ Len(fetch.issued) = 2
  /\ RowCount(result.rows) = SafetyLimit

\* C26: a paginated fetch one of whose page requests failed ends as a
\* failure with the message of the error; the rows of its earlier pages
\* reach neither the caller nor a later retry: a fetch that threw returned
\* nothing, every fetch starts empty, and a result or a success response
\* holds the rows of a fetch all of whose requests were answered.
C26_NoPartialSuccess ==
  /\ pc = "fetch_threw" =>
       /\ thrown # <<>>
       /\ result = NoResult
       /\ response = NoResponse
  /\ pc = "fetch_start" =>
       /\ fetch.allResults = <<>>
       /\ fetch.received = <<>>
       /\ fetch.skip = 0
  /\ (pc \in {"fetch_returned", "post_process"} /\ UsesPagination(fetch)) =>
       /\ Len(fetch.received) = Len(fetch.issued)
       /\ result.rows = fetch.allResults
  /\ (pc = "done" /\ response.status = 200 /\ UsesPagination(fetch)) =>
       /\ Len(fetch.received) = Len(fetch.issued)
       /\ response.rows = ChartData(PostFilter(queryResult, body.lowStockQuery,
                                               FinalResult(fetch)))

\* C26 witness: the first page brought 2 rows, the second page request
\* failed, and the fetch threw the error of the upstream
C26_Witness ==
  /\ pc = "fetch_threw"
  /\ fetch.phase = "first"
  /\ UsesPagination(fetch)
  /\ RowCount(fetch.allResults) = 2
  /\ Len(fetch.issued) = 2
  /\ Len(fetch.received) = 1
  /\ thrown = HttpErrorMsg("401", "Unauthorized",
                           <<"Invalid session or session already timeout.">>)

\* C26 witness: after that failure the retried fetch ran and the request
\* answered with the rows of the retry alone
C26_WitnessRetry ==
  /\ pc = "done"
  /\ response.status = 200
  /\ fetch.phase = "authRetry"
  /\ UsesPagination(fetch)
  /\ AuthClassified(obs.firstThrown)
  /\ fetch.received = <<2, 2>>
  /\ response.rows = <<[page |-> 1, n |-> 2, low |-> FALSE],
                       [page |-> 2, n |-> 2, low |-> FALSE]>>

\* C27: in the route that limits results to the top 50 records, every
\* successful response holds at most 50 rows: after the first fetch, after
\* the retried fetch that follows a forced re-login, and after the Items
\* invalid-filter retry.
C27_AtMost50 ==
  (pc = "done" /\ response.status = 200) => RowCount(response.rows) <= Top50

\* The upstream row positions page request i covered: from its offset up to,
\* not including, IntervalEnd
PageRows(f, i) == IF f.received[i] < 0 THEN 0 ELSE f.received[i]
IntervalEnd(f, i) == f.issued[i].skip + PageRows(f, i)

\* A paginated fetch without row limit ended successfully
UnlimitedFetchReturned ==
  /\ pc = "fetch_returned"
  /\ UsesPagination(fetch)
  /\ fetch.requestedLimit = Null
  /\ Len(fetch.received) = Len(fetch.issued)

\* C28 as stated: the intervals of consecutive page requests are adjacent,
\* also after a zero-row page.
C28_NoGapsOriginal ==
  UnlimitedFetchReturned =>
    \A i \in 1..(Len(fetch.issued) - 1) :
       fetch.issued[i + 1].skip = IntervalEnd(fetch, i)

\* C28 amended: the intervals of the page requests are disjoint and in
\* order, so no row position is fetched twice and every fetched row is kept
\* once; an interval is adjacent to the next one after a page with rows, and
\* exactly 20 positions are skipped after each zero-row page that is
\* followed by a further request.
C28_NoOverlaps ==
  UnlimitedFetchReturned =>
    /\ \A i \in 1..Len(fetch.issued), j \in 1..Len(fetch.issued) :
          i < j => IntervalEnd(fetch, i) <= fetch.issued[j].skip
    /\ \A i \in 1..(Len(fetch.issued) - 1) :
          fetch.issued[i + 1].skip - IntervalEnd(fetch, i) =
            (IF PageRows(fetch, i) = 0 THEN EmptyPageIncrement ELSE 0)
    /\ RowCount(fetch.allResults) = SumSeq([i \in 1..Len(fetch.received) |->
                                              PageRows(fetch, i)])

\* C28 witness: a zero-row page between two pages of 37 rows; the second
\* 37 rows were asked at offset 57, positions 37..56 were never asked for
C28_Witness ==
  /\ UnlimitedFetchReturned
  /\ fetch.received = <<37, 0, 37, 0, 0, 0>>
  /\ fetch.issued[2].skip = 37
  /\ fetch.issued[3].skip = 57
  /\ fetch.issued[4].skip = 94
  /\ RowCount(fetch.allResults) = 74

\* Caller c's login POST is answered in this step with a failure that
\* invalidates: a non-2xx status, a network error, an unparseable body, or,
\* for a forced login, a body without token
FailedLoginStep(c) ==
  /\ AnswerStep(c)
  /\ \/ calls'[c].answer \in {"non2xx", "neterr", "badjson"}
     \/ (calls'[c].answer = "notoken" /\ calls[c].forceNew)

\* Caller c's loginToSAPB1 call of this step failed before its login POST
EarlyFailureStep(c) ==
  /\ calls'[c].n = calls[c].n + 1
  /\ calls'[c].kind = "login"
  /\ calls'[c].state = "returned"
  /\ calls'[c].result = NoSession

\* Caller c's request invalidates its connection in this step after its
\* query failed with an auth-classified error, and forces a login
InvalidationStep(c) ==
  /\ calls[c].kind = "login"
  /\ calls[c].state = "returned"
  /\ ~calls[c].forceNew
  /\ calls'[c].forceNew
  /\ calls'[c].settings = calls[c].settings

\* The unexpired entry under key k is in the Map before this step and not
\* after it
RemovedUnexpired(k) ==
  /\ k \in DOMAIN sessionCache
  /\ ~IsExpired(sessionCache[k], now)
  /\ k \notin DOMAIN sessionCache'

\* C29 as stated: a login of a request that observed no auth failure (a
\* non-forced login after a cache miss) does not remove, when it fails, the
\* unexpired entry another request's successful login wrote.
C29_OwnTokenOnlyOriginal ==
  [][\A c \in Callers :
       (AnswerStep(c) /\ ~calls[c].forceNew) => ~RemovedUnexpired(CallKey(c))]_vars

\* C29 amended: an unexpired entry leaves the Map only in a step that
\* invalidates its own connection: a failed login for that connection, or
\* the invalidation of a request whose query failed with an auth-classified
\* error, by whichever request and whatever token the entry holds; never in
\* a step of a login for another connection, a successful login, a
\* non-forced login without token, a cache hit, a connection test, or a
\* sweep.
C29_RemovalOnlyByInvalidation ==
  [][\A k \in DOMAIN sessionCache :
       RemovedUnexpired(k) =>
          \E c \in Callers :
             /\ FailedLoginStep(c) \/ EarlyFailureStep(c) \/ InvalidationStep(c)
             /\ ~TrimThrows(calls'[c].settings)
             /\ getConnectionKey(calls'[c].settings) = k]_vars

\* C29 witness: a forced login for a connection failed with a network error
\* while the token another caller's login had cached for that connection
\* was unexpired; the entry is gone
C29_Witness ==
  \E c \in Callers, d \in Callers :
     /\ c # d
     /\ calls[c].kind = "login" /\ calls[c].state = "returned"
     /\ calls[c].forceNew
     /\ calls[c].answer = "neterr"
     /\ calls[d].kind = "login" /\ calls[d].state = "returned"
     /\ calls[d].answer = "token"
     /\ calls[d].result = 1 /\ nextSession = 2
     /\ CallKey(c) = CallKey(d)
     /\ now < ThirtyMinutes
     /\ swept = {}
     /\ CallKey(c) \notin DOMAIN sessionCache

\* executeSAPB1Query returned or threw
FetchEnded == pc \in {"fetch_returned", "fetch_threw"}

\* A page request is sent in this step
PageRequestSent ==
  /\ UsesPagination(fetch)
  /\ Len(fetch'.issued) = Len(fetch.issued) + 1

\* The request sent in this step asks for an offset in 0..99,999 that is
\* larger than the offset of the request before it
OffsetGrows ==
  LET n == Len(fetch.issued)
  IN /\ fetch'.issued[n + 1].skip >= 0
     /\ fetch'.issued[n + 1].skip < SafetyLimit
     /\ n > 0 => fetch'.issued[n + 1].skip > fetch.issued[n].skip

\* C30: when every page request returns in the end, a paginated fetch ends
\* in success, failure or cancellation after finitely many page requests,
\* with or without a row limit, with or without a count, whether or not the
\* count is ever reached: every page request asks for an offset below the
\* safety limit of 100,000 and above the offset of the request before it,
\* so that no call makes more than 100,000 page requests, and every call
\* ends.
C30_PaginationTerminates ==
  /\ [][PageRequestSent => OffsetGrows]_vars
  /\ <>FetchEnded

\* C30 witness: the upstream announced 2,000 rows, sent one page of 1,000
\* and then only empty pages; the count is not reached and the empty pages
\* are not counted, so the loop went on, 20 offsets at a time, until the
\* client cancelled during the hundredth page request and the fetch threw
C30_Witness ==
  /\ pc = "fetch_threw"
  /\ thrown = CancelMsg
  /\ fetch.fetchAll
  /\ fetch.totalCountFromServer = 2 * pageSize
  /\ fetch.consecutiveEmptyPages = 0
  /\ Len(fetch.issued) = 100
  /\ Len(fetch.received) = 99
  /\ fetch.received[1] = pageSize
  /\ \A i \in 2..99 : fetch.received[i] = 0
  /\ fetch.issued[100].skip = pageSize + 98 * EmptyPageIncrement

====
